---- MODULE Spec2Model ----
(***************************************************************************)
(* Model of the llama.cpp protocol adapter: the streaming chat-completion  *)
(* call of LlamaCppClient (SSE line splitting, tool-call accumulation,     *)
(* terminal batch) and the facade that converts its events into canonical  *)
(* responses.                                                              *)
(*                                                                         *)
(* Text is modelled as sequences of tokens.  A response body is a sequence *)
(* of body tokens: NL (a newline), WS (white space other than a newline,   *)
(* e.g. a carriage return), DATA (the six characters "data: "), DONE (the  *)
(* text "[DONE]"), JUNK (text that is not JSON), CMT (the text of a line   *)
(* that is no data line) and one token per JSON chunk object.  Function    *)
(* names and arguments are sequences of one-character strings.             *)
(***************************************************************************)
EXTENDS Integers, Sequences, FiniteSets, TLC

\* Bounds of the exploration.
MaxLines == 3
MaxInFlight == 2
MaxPulls == 2

-----------------------------------------------------------------------------
\* Body tokens.

NL == [t |-> "NL"]
WS == [t |-> "WS"]
DATA == [t |-> "DATA"]
DONE == [t |-> "DONE"]
JUNK == [t |-> "JUNK"]
CMT == [t |-> "CMT"]
FIELD == [t |-> "FIELD"]

Json(c) == [t |-> "JSON", chunk |-> c]

\* One element of delta.tool_calls: index, id ("" when absent) and the
\* function.name / function.arguments fragments (<<>> when absent or empty).
Tcd(index, id, name, arguments) ==
  [index |-> index, id |-> id, name |-> name, arguments |-> arguments]

\* A chunk whose choices[0].delta carries content ("" when absent) and
\* tool_calls (<<>> when absent).
DeltaChunk(content, tool_calls) ==
  [hasChoices |-> TRUE,
   choices |-> <<[hasDelta |-> TRUE,
                  delta |-> [content |-> content, tool_calls |-> tool_calls]]>>]

NoDelta == [content |-> "", tool_calls |-> <<>>]

\* JSON objects that lack the choices/delta shape.
NoChoicesChunk == [hasChoices |-> FALSE, choices |-> <<>>]
EmptyChoicesChunk == [hasChoices |-> TRUE, choices |-> <<>>]
NoDeltaChunk ==
  [hasChoices |-> TRUE, choices |-> <<[hasDelta |-> FALSE, delta |-> NoDelta]>>]

-----------------------------------------------------------------------------
\* JSON text of function arguments, over the characters "{", "}", "1" and
\* "k" (which stands for a member key with its colon, "x":).
\*   value  ::= number | object
\*   number ::= "1"+
\*   object ::= "{" "}" | "{" "k" value "}"
\* The content of a tool result has more of JSON: the number "0", the words
\* "null", "false" and "true" (one character each here), the member key "c"
\* ("content":) and strings between quotes, in which a quote or a backslash
\* is written after a backslash and every other character as it is.
\*   value  ::= ... | "0" | "null" | "false" | "true" | string
\*   object ::= ... | "{" "c" value "}"

EmptyObject == [t |-> "obj", n |-> 0, m |-> <<>>]

ParseFail == [ok |-> FALSE, next |-> 0, val |-> EmptyObject]

RECURSIVE DigitsEnd(_, _)
DigitsEnd(s, i) ==
  IF i <= Len(s) /\ s[i] = "1" THEN DigitsEnd(s, i + 1) ELSE i

Quote == "\""
Backslash == "\\"

NullValue == [t |-> "null", n |-> 0, m |-> <<>>]
BoolValue(b) == [t |-> "bool", n |-> IF b THEN 1 ELSE 0, m |-> <<>>]
NumValue(n) == [t |-> "num", n |-> n, m |-> <<>>]
StrValue(chars) == [t |-> "str", n |-> Len(chars), m |-> chars]
ObjValue(key, val) ==
  [t |-> "obj", n |-> 1, m |-> <<[key |-> key, val |-> val]>>]

\* The characters of a string from s[i] on, up to its closing quote.
RECURSIVE ParseString(_, _, _)
ParseString(s, i, chars) ==
  IF i > Len(s) THEN ParseFail
  ELSE IF s[i] = Quote THEN
    [ok |-> TRUE, next |-> i + 1, val |-> StrValue(chars)]
  ELSE IF s[i] = Backslash THEN
    IF i + 1 <= Len(s) /\ s[i + 1] \in {Quote, Backslash}
    THEN ParseString(s, i + 2, Append(chars, s[i + 1]))
    ELSE ParseFail
  ELSE ParseString(s, i + 1, Append(chars, s[i]))

RECURSIVE ParseValue(_, _)
ParseValue(s, i) ==
  IF i > Len(s) THEN ParseFail
  ELSE IF s[i] = "1" THEN
    LET j == DigitsEnd(s, i)
    IN [ok |-> TRUE, next |-> j, val |-> [t |-> "num", n |-> j - i, m |-> <<>>]]
  ELSE IF s[i] = "0" THEN [ok |-> TRUE, next |-> i + 1, val |-> NumValue(0)]
  ELSE IF s[i] = "null" THEN [ok |-> TRUE, next |-> i + 1, val |-> NullValue]
  ELSE IF s[i] = "false" THEN
    [ok |-> TRUE, next |-> i + 1, val |-> BoolValue(FALSE)]
  ELSE IF s[i] = "true" THEN
    [ok |-> TRUE, next |-> i + 1, val |-> BoolValue(TRUE)]
  ELSE IF s[i] = Quote THEN ParseString(s, i + 1, <<>>)
  ELSE IF s[i] = "{" THEN
    IF i + 1 > Len(s) THEN ParseFail
    ELSE IF s[i + 1] = "}" THEN
      [ok |-> TRUE, next |-> i + 2, val |-> EmptyObject]
    ELSE IF s[i + 1] \in {"k", "c"} THEN
      LET r == ParseValue(s, i + 2)
      IN IF r.ok /\ r.next <= Len(s) /\ s[r.next] = "}"
         THEN [ok |-> TRUE, next |-> r.next + 1,
               val |-> ObjValue(IF s[i + 1] = "c" THEN "content" ELSE "x",
                                r.val)]
         ELSE ParseFail
    ELSE ParseFail
  ELSE ParseFail

\* JSON.parse of an arguments string: ok is FALSE where JSON.parse throws.
JSONParse(s) ==
  LET r == ParseValue(s, 1)
  IN IF r.ok /\ r.next = Len(s) + 1 THEN r ELSE ParseFail

-----------------------------------------------------------------------------
\* String helpers of the stream loop.

IsSpace(tok) == tok.t \in {"WS", "NL"}

RECURSIVE TrimLeft(_)
TrimLeft(s) ==
  IF s # <<>> /\ IsSpace(Head(s)) THEN TrimLeft(Tail(s)) ELSE s

RECURSIVE TrimRight(_)
TrimRight(s) ==
  IF s # <<>> /\ IsSpace(s[Len(s)])
  THEN TrimRight(SubSeq(s, 1, Len(s) - 1)) ELSE s

\* String.prototype.trim
Trim(s) == TrimRight(TrimLeft(s))

\* buffer.split('\n'): the pieces between newlines, the last piece being
\* the text after the last newline (empty when the text ends in one).
RECURSIVE SplitNL(_, _, _)
SplitNL(s, cur, acc) ==
  IF s = <<>> THEN Append(acc, cur)
  ELSE IF Head(s) = NL THEN SplitNL(Tail(s), <<>>, Append(acc, cur))
  ELSE SplitNL(Tail(s), Append(cur, Head(s)), acc)

Split(s) == SplitNL(s, <<>>, <<>>)

\* The test that also lets the lines of other fields through.
StartsWithAnyField(trimmed) ==
  Len(trimmed) >= 2 /\ trimmed[1] \in {DATA, FIELD}

\* trimmed.startsWith('data: '): the prefix with something after it (a line
\* that is only "data: " loses the blank to trim and does not match).
StartsWithData(trimmed) == Len(trimmed) >= 2 /\ trimmed[1] = DATA

\* trimmed.slice(6)
Slice6(trimmed) == SubSeq(trimmed, 2, Len(trimmed))

\* JSON.parse(data) of a chunk: surrounding white space is accepted, the
\* text between must be one JSON value.
ParseChunk(data) ==
  LET d == Trim(data)
  IN IF Len(d) = 1 /\ d[1].t = "JSON"
     THEN [ok |-> TRUE, chunk |-> d[1].chunk]
     ELSE [ok |-> FALSE, chunk |-> NoChoicesChunk]

-----------------------------------------------------------------------------
\* The lines a server may send (each is the text before its newline).

Text1 == Json(DeltaChunk("Hel", <<>>))
OpenA == Json(DeltaChunk("", <<Tcd(0, "a", <<"f">>, <<>>)>>))
Frag1 == Json(DeltaChunk("", <<Tcd(0, "", <<"g">>, <<"{", "k">>)>>))
Frag2 == Json(DeltaChunk("", <<Tcd(0, "", <<>>, <<"1", "}">>)>>))
Other1 == Json(DeltaChunk("", <<Tcd(1, "c", <<"h">>, <<"1">>)>>))
TextOpenB ==
  Json(DeltaChunk("lo", <<Tcd(0, "b", <<>>, <<>>), Tcd(0, "", <<"g">>, <<>>)>>))

WellFormedPayloads == {Text1, OpenA, Frag1, Frag2, Other1, TextOpenB}

MalformedPayloads == {JUNK, Json(NoChoicesChunk)}

DataLine(p) == <<DATA, p>>

LineSet ==
  {DataLine(p) : p \in WellFormedPayloads \cup MalformedPayloads}
    \cup {DataLine(DONE), <<CMT>>}

\* Lines for the runs about malformed payloads: every kind of them among a
\* few well-formed lines.
AllMalformedPayloads ==
  {JUNK, Json(NoChoicesChunk), Json(EmptyChoicesChunk), Json(NoDeltaChunk)}

MalformedLineSet ==
  {DataLine(p) : p \in {OpenA, Frag1, TextOpenB} \cup AllMalformedPayloads}
    \cup {DataLine(DONE)}

-----------------------------------------------------------------------------
VARIABLES
  pc,                   \* where the generator of chatCompletionStream stands
  exit,                 \* how it ended: "none", "return", "abandon", "throw"
  ending,               \* which closing logic ran: "none", "marker", "eof"
  requests,             \* HTTP requests issued by the call
  reader,               \* "none", "locked", "released"
  released,             \* number of reader.releaseLock() calls
  srv,                  \* the server side of the body: "open", "closed"
  sent,                 \* number of lines the server has written
  wire,                 \* body tokens written and not yet read
  buffer,               \* the incomplete line kept between reads
  lines,                \* complete lines of the last read, not yet looped over
  currentToolCall,      \* the open call ([open |-> FALSE] when null)
  toolCallAccumulator,  \* the completed calls
  pending,              \* delta.tool_calls of the delta suspended at its text yield
  events,               \* what the generator has yielded
  responses,            \* what the facade has yielded
  decoded,              \* the lines the loop has gone through, in order
  timer,                \* the timer of the streaming call's fetchWithTimeout
  fetched,              \* how its fetch() settled ("none" before)
  pulls,                \* next() calls made after the generator has ended
  generator,            \* createContentGenerator: "none", "returned", "failed"
                        \* (with the error of initialize), "refused" (with
                        \* the error of its configuration check)
  model,                \* this.model of the client
  displayName,          \* this.displayName of the client
  initialize,           \* the invocation of initialize()
  chatCompletion,       \* the invocation of chatCompletion()
  log,                  \* the HTTP requests issued by the client, in order
  conv,                 \* input and results of the translations under way
  config,               \* the environment, the auth type and the configuration
  clock                 \* Date.now()

\* The client, its single-shot calls and its requests.
clientVars == <<generator, model, displayName, initialize, chatCompletion, log>>

\* What the read loop of the streaming call leaves alone.
loopFrame == <<clientVars, timer, fetched, pulls, conv, config, clock>>

\* The streaming call.
streamVars ==
  <<pc, exit, ending, requests, reader, released, srv, sent, wire, buffer,
    lines, currentToolCall, toolCallAccumulator, pending, events, responses,
    decoded, timer, fetched, pulls>>

vars == <<streamVars, clientVars, conv, config, clock>>

-----------------------------------------------------------------------------
\* The accumulator.

NoCall == [open |-> FALSE, id |-> "", name |-> <<>>, arguments |-> <<>>]

NewCall(id) == [open |-> TRUE, id |-> id, name |-> <<>>, arguments |-> <<>>]

\* The OpenAIToolCall an open call is pushed as.
AsToolCall(cur) ==
  [id |-> cur.id, type |-> "function",
   function |-> [name |-> cur.name, arguments |-> cur.arguments]]

\* if (currentToolCall && currentToolCall.id) toolCallAccumulator.push(...)
PushCurrent(cur, acc) ==
  IF cur.open /\ cur.id # "" THEN Append(acc, AsToolCall(cur)) ELSE acc

\* The loop body with fragments assigned (=) where the code appends (+=).
ApplyToolCallDeltaAssign(st, tcd) ==
  LET st1 == IF tcd.index = 0 /\ tcd.id # ""
             THEN [cur |-> NewCall(tcd.id), acc |-> PushCurrent(st.cur, st.acc)]
             ELSE st
  IN IF st1.cur.open
     THEN [st1 EXCEPT !.cur.name = IF tcd.name # <<>> THEN tcd.name ELSE @,
                      !.cur.arguments =
                        IF tcd.arguments # <<>> THEN tcd.arguments ELSE @]
     ELSE st1

\* The loop body with the pushed call still shared with the open one (the
\* object is reused for the next call instead of a fresh one): the last
\* completed entry follows every later change.
ApplyToolCallDeltaShared(st, tcd) ==
  LET st1 == IF tcd.index = 0 /\ tcd.id # ""
             THEN [cur |-> NewCall(tcd.id), acc |-> PushCurrent(st.cur, st.acc)]
             ELSE st
      st2 == IF st1.cur.open
             THEN [st1 EXCEPT !.cur.name = @ \o tcd.name,
                              !.cur.arguments = @ \o tcd.arguments]
             ELSE st1
  IN IF st2.acc # <<>>
     THEN [st2 EXCEPT !.acc[Len(st2.acc)] = AsToolCall(st2.cur)]
     ELSE st2

\* The loop body that opens a call on every delta carrying an id, whatever
\* its index.
ApplyToolCallDeltaAnyIndex(st, tcd) ==
  LET st1 == IF tcd.id # ""
             THEN [cur |-> NewCall(tcd.id), acc |-> PushCurrent(st.cur, st.acc)]
             ELSE st
  IN IF st1.cur.open
     THEN [st1 EXCEPT !.cur.name = @ \o tcd.name,
                      !.cur.arguments = @ \o tcd.arguments]
     ELSE st1

\* The loop body that keeps the fragments arriving while no call is open, in
\* a call without id.
ApplyToolCallDeltaKeepsOrphans(st, tcd) ==
  LET st1 == IF tcd.index = 0 /\ tcd.id # ""
             THEN [cur |-> NewCall(tcd.id), acc |-> PushCurrent(st.cur, st.acc)]
             ELSE IF ~st.cur.open THEN [st EXCEPT !.cur.open = TRUE]
             ELSE st
  IN [st1 EXCEPT !.cur.name = @ \o tcd.name,
                 !.cur.arguments = @ \o tcd.arguments]

\* One iteration of `for (const toolCallDelta of delta.tool_calls)`.
ApplyToolCallDelta(st, tcd) ==
  LET st1 == IF tcd.index = 0 /\ tcd.id # ""
             THEN [cur |-> NewCall(tcd.id), acc |-> PushCurrent(st.cur, st.acc)]
             ELSE st
  IN IF st1.cur.open
     THEN [st1 EXCEPT !.cur.name = @ \o tcd.name,
                      !.cur.arguments = @ \o tcd.arguments]
     ELSE st1

RECURSIVE ApplyToolCalls(_, _)
ApplyToolCalls(st, tcs) ==
  IF tcs = <<>> THEN st
  ELSE ApplyToolCalls(ApplyToolCallDelta(st, Head(tcs)), Tail(tcs))

\* chunk.choices[0]?.delta: throws when choices is missing, is undefined
\* (here NoDelta, which carries nothing) when there is no first choice or it
\* has no delta.
DeltaOf(chunk) ==
  IF ~chunk.hasChoices THEN [ok |-> FALSE, delta |-> NoDelta]
  ELSE IF chunk.choices = <<>> \/ ~chunk.choices[1].hasDelta
       THEN [ok |-> TRUE, delta |-> NoDelta]
       ELSE [ok |-> TRUE, delta |-> chunk.choices[1].delta]

-----------------------------------------------------------------------------
\* Events of the generator and their conversion by the facade.

TextEvent(s) == [type |-> "text", text |-> s, tool_calls |-> <<>>]
BatchEvent(calls) == [type |-> "batch", text |-> "", tool_calls |-> calls]

\* The conversion with the raw text kept where the parse fails.
convertOpenAIToolCallKeepRaw(toolCall) ==
  LET r == JSONParse(toolCall.function.arguments)
  IN [id |-> toolCall.id, name |-> toolCall.function.name,
      args |-> IF r.ok THEN r.val
               ELSE [t |-> "str", n |-> Len(toolCall.function.arguments),
                     m |-> <<>>]]

convertOpenAIToolCallToGemini(toolCall) ==
  LET r == JSONParse(toolCall.function.arguments)
  IN [id |-> toolCall.id, name |-> toolCall.function.name,
      args |-> IF r.ok THEN r.val ELSE EmptyObject]

convertOpenAIToolCallsToGemini(toolCalls) ==
  [i \in DOMAIN toolCalls |-> convertOpenAIToolCallToGemini(toolCalls[i])]

TextPart(s) == [kind |-> "text", text |-> s]
FunctionCallPart(fc) == [kind |-> "functionCall", functionCall |-> fc]

\* The loop body with the calls of a batch put into the response last first.
GeminiResponseReversed(chunk) ==
  IF chunk.type = "text"
  THEN [parts |-> <<TextPart(chunk.text)>>, finishReason |-> "undefined"]
  ELSE LET functionCalls == convertOpenAIToolCallsToGemini(chunk.tool_calls)
           n == Len(functionCalls)
       IN [parts |-> [i \in DOMAIN functionCalls |->
                        FunctionCallPart(functionCalls[n + 1 - i])],
           finishReason |-> "TOOL_CALLS"]

\* The body of the facade's `for await` loop: one response per event.
GeminiResponse(chunk) ==
  IF chunk.type = "text"
  THEN [parts |-> <<TextPart(chunk.text)>>, finishReason |-> "undefined"]
  ELSE LET functionCalls == convertOpenAIToolCallsToGemini(chunk.tool_calls)
       IN [parts |-> [i \in DOMAIN functionCalls |->
                        FunctionCallPart(functionCalls[i])],
           finishReason |-> "TOOL_CALLS"]

-----------------------------------------------------------------------------
\* Model identifiers are sequences of characters: "/" (the path separator),
\* "\\" (a backslash), "m", "-" and ".gguf" (the five characters of the
\* extension, kept whole).

ModelChars == {"/", "\\", "m", "-", ".gguf"}

\* modelPath.split('/')
RECURSIVE SplitPath(_, _, _)
SplitPath(s, cur, acc) ==
  IF s = <<>> THEN Append(acc, cur)
  ELSE IF Head(s) = "/" THEN SplitPath(Tail(s), <<>>, Append(acc, cur))
  ELSE SplitPath(Tail(s), Append(cur, Head(s)), acc)

\* filename.replace(/\.gguf$/, ''): one extension at the end is taken off.
RemoveExt(filename) ==
  IF filename # <<>> /\ filename[Len(filename)] = ".gguf"
  THEN SubSeq(filename, 1, Len(filename) - 1) ELSE filename

\* nameWithoutExt.match(/^(.+?)[-_](.+)$/): a "-" or "_" with something on
\* both sides; match[0] is then the whole name.
BrandMatch(name) ==
  \E i \in 2..(Len(name) - 1) : name[i] \in {"-", "_"}

\* The extension taken off the whole path, the directories kept.
extractModelNameOfPath(modelPath) == RemoveExt(modelPath)

extractModelName(modelPath) ==
  LET parts == SplitPath(modelPath, <<>>, <<>>)
      filename == parts[Len(parts)]
      nameWithoutExt == RemoveExt(filename)
  IN IF BrandMatch(nameWithoutExt) THEN nameWithoutExt ELSE nameWithoutExt

\* The body of a GET /v1/models response: the names of `models` and the ids
\* of `data`, each list absent or present.
ModelsResponse(hasModels, models, hasData, data) ==
  [hasModels |-> hasModels, models |-> models, hasData |-> hasData,
   data |-> data]

\* The fields before initialize().
NoModel == <<>>
DefaultDisplayName == <<"llama.cpp">>

\* An HTTP request of the client.
Request(endpoint, m, stream) ==
  [endpoint |-> endpoint, model |-> m, stream |-> stream]

\* The invocation of an async method: where it stands, how it settled, the
\* timer of its fetchWithTimeout and how its fetch() settled.
NoModelsResponse == ModelsResponse(FALSE, <<>>, FALSE, <<>>)

IdleCall == [pc |-> "idle", result |-> "none", timer |-> "none",
             fetched |-> "none", modelsResponse |-> NoModelsResponse]

\* The body of a chat-completions response (not streamed).  content is absent,
\* null or a string; tool_calls and usage are absent or present.
Undefined == [t |-> "undefined", s |-> ""]
Null == [t |-> "null", s |-> ""]
Str(s) == [t |-> "string", s |-> s]

Message(content, hasToolCalls, tool_calls) ==
  [content |-> content, hasToolCalls |-> hasToolCalls,
   tool_calls |-> tool_calls]

Choice(hasMessage, message) == [hasMessage |-> hasMessage, message |-> message]

Usage(p, c) == [prompt_tokens |-> p, completion_tokens |-> c,
                total_tokens |-> p + c]

NoUsage == [prompt_tokens |-> 0, completion_tokens |-> 0, total_tokens |-> 0]

ChatResponse(hasChoices, choices, hasUsage, usage) ==
  [model |-> <<"m">>, hasChoices |-> hasChoices, choices |-> choices,
   hasUsage |-> hasUsage, usage |-> usage]

NoChatResponse == ChatResponse(FALSE, <<>>, FALSE, NoUsage)

\* What chatCompletion returns (none while it has not returned).
NoResponse ==
  [returned |-> FALSE, content |-> Undefined, model |-> <<>>,
   hasToolCalls |-> FALSE,
   tool_calls |-> <<>>, hasUsage |-> FALSE, usage |-> NoUsage]

-----------------------------------------------------------------------------
\* The streaming call before its first next().
InitStream ==
  /\ pc = "init"
  /\ exit = "none"
  /\ ending = "none"
  /\ requests = 0
  /\ reader = "none"
  /\ released = 0
  /\ srv = "open"
  /\ sent = 0
  /\ wire = <<>>
  /\ buffer = <<>>
  /\ lines = <<>>
  /\ currentToolCall = NoCall
  /\ toolCallAccumulator = <<>>
  /\ pending = <<>>
  /\ events = <<>>
  /\ responses = <<>>
  /\ decoded = <<>>
  /\ timer = "none"
  /\ fetched = "none"
  /\ pulls = 0

\* No conversion under way.
NoConv == [stage |-> "none"]

\* No configuration made or given.
NoCfg == [authType |-> Undefined, llamacppBaseUrl |-> Undefined]

\* The process with LLAMACPP_BASE_URL set to baseUrl, before any call of the
\* configuration functions.
ConfigOf(baseUrl) ==
  [env |-> baseUrl,
   authMethod |-> Undefined, validated |-> "none",
   authType |-> Undefined, made |-> "none", cfg |-> NoCfg,
   called |-> FALSE, given |-> NoCfg]

NoConfig == ConfigOf(Str("u"))

\* A client whose discovery has succeeded.
DiscoveredModel == <<"/", "m", "-", "m", ".gguf">>

IdleChat == [pc |-> "idle", result |-> "none", timer |-> "none",
             fetched |-> "none", openaiResponse |-> NoChatResponse, response |-> NoResponse]

\* createContentGenerator has returned the generator of an initialized
\* client; no call has been made yet.
Init ==
  /\ InitStream
  /\ generator = "returned"
  /\ model = DiscoveredModel
  /\ displayName = extractModelName(DiscoveredModel)
  /\ initialize = [pc |-> "done", result |-> "ok", timer |-> "cleared",
                   fetched |-> "ok",
                   modelsResponse |->
                     ModelsResponse(TRUE, <<DiscoveredModel>>, FALSE, <<>>)]
  /\ chatCompletion = IdleChat
  /\ log = <<Request("models", <<>>, FALSE)>>
  /\ conv = NoConv
  /\ config = NoConfig
  /\ clock = 0

\* The client as constructed by createContentGenerator, before initialize().
InitClient ==
  /\ InitStream
  /\ generator = "none"
  /\ model = NoModel
  /\ displayName = DefaultDisplayName
  /\ initialize = IdleCall
  /\ chatCompletion = IdleChat
  /\ log = <<>>
  /\ conv = NoConv
  /\ config = NoConfig
  /\ clock = 0

\* yield: the event goes to the facade's loop body, which yields its response.
Yield(ev) ==
  /\ events' = Append(events, ev)
  /\ responses' = Append(responses, GeminiResponse(ev))

\* The release at the end of the try block instead of in a finally block.
FinallyOnReturn(how) ==
  /\ pc' = "ended"
  /\ exit' = how
  /\ IF how = "return"
     THEN reader' = "released" /\ released' = released + 1
     ELSE UNCHANGED <<reader, released>>

\* finally { reader.releaseLock() } and the end of the generator.
Finally(how) ==
  /\ pc' = "ended"
  /\ exit' = how
  /\ reader' = "released"
  /\ released' = released + 1

\* The closing logic without the push of the open call.
CloseOutNoPush(why) ==
  /\ ending' = why
  /\ UNCHANGED toolCallAccumulator
  /\ IF toolCallAccumulator # <<>>
     THEN /\ Yield(BatchEvent(toolCallAccumulator))
          /\ pc' = "yieldBatch"
          /\ UNCHANGED <<exit, reader, released>>
     ELSE /\ Finally("return")
          /\ UNCHANGED <<events, responses>>

\* The closing logic (on [DONE] and after the read loop): push the open call,
\* yield the batch when there is one, else end.
CloseOut(why) ==
  LET acc == PushCurrent(currentToolCall, toolCallAccumulator)
  IN /\ ending' = why
     /\ toolCallAccumulator' = acc
     /\ IF acc # <<>>
        THEN /\ Yield(BatchEvent(acc))
             /\ pc' = "yieldBatch"
             /\ UNCHANGED <<exit, reader, released>>
        ELSE /\ Finally("return")
             /\ UNCHANGED <<events, responses>>

\* The timer of fetchWithTimeout once fetch() has settled: cleared in the
\* finally block, after it has fired when the outcome is the abort.
TimerAfter(outcome) == IF outcome = "timeout" THEN "fired" ELSE "cleared"

\* The outcomes of fetch(): a response with a success status ("ok") or with
\* another status, a network failure, the abort by the timer.
FetchOutcomes == {"ok", "status", "error", "timeout"}

\* The first next(): the request is built from this.model and sent under the
\* timer of fetchWithTimeout.
StartStream ==
  /\ pc = "init"
  /\ generator = "returned"
  /\ pc' = "fetch"
  /\ requests' = requests + 1
  /\ log' = Append(log, Request("chat", model, TRUE))
  /\ timer' = "armed"
  /\ UNCHANGED <<exit, ending, reader, released, srv, sent, wire, buffer,
                 lines, currentToolCall, toolCallAccumulator, pending, events,
                 responses, decoded, fetched, pulls>>
  /\ UNCHANGED <<generator, model, displayName, initialize, chatCompletion,
                 conv, config, clock>>

\* fetch() settles: the generator throws when the fetch fails or is aborted,
\* the status is no success or the response has no body, and takes the body's
\* reader otherwise.
Fetch(outcome) ==
  /\ pc = "fetch"
  /\ outcome = "timeout" => timer = "armed"
  /\ timer' = TimerAfter(outcome)
  /\ fetched' = outcome
  /\ IF outcome = "ok"
     THEN /\ pc' = "run"
          /\ reader' = "locked"
          /\ UNCHANGED exit
     ELSE /\ pc' = "ended"
          /\ exit' = "throw"
          /\ UNCHANGED reader
  /\ UNCHANGED <<ending, requests, released, srv, sent, wire, buffer, lines,
                 currentToolCall, toolCallAccumulator, pending, events,
                 responses, decoded, pulls>>
  /\ UNCHANGED <<clientVars, conv, config, clock>>

\* The server writes one more line, newline included.
ServerSend(line) ==
  /\ pc = "run"
  /\ lines = <<>>
  /\ srv = "open"
  /\ sent < MaxLines
  /\ Len(Split(wire)) - 1 < MaxInFlight
  /\ wire' = wire \o line \o <<NL>>
  /\ sent' = sent + 1
  /\ UNCHANGED <<pc, exit, ending, requests, reader, released, srv, buffer,
                 lines, currentToolCall, toolCallAccumulator, pending, events,
                 responses, decoded>>
  /\ UNCHANGED loopFrame

\* The server writes a last line without its newline and closes the body.
ServerSendUnterminated(line) ==
  /\ pc = "run"
  /\ lines = <<>>
  /\ srv = "open"
  /\ sent < MaxLines
  /\ Len(Split(wire)) - 1 < MaxInFlight
  /\ line # <<>>
  /\ wire' = wire \o line
  /\ sent' = sent + 1
  /\ srv' = "closed"
  /\ UNCHANGED <<pc, exit, ending, requests, reader, released, buffer, lines,
                 currentToolCall, toolCallAccumulator, pending, events,
                 responses, decoded>>
  /\ UNCHANGED loopFrame

ServerClose ==
  /\ pc = "run"
  /\ lines = <<>>
  /\ srv = "open"
  /\ srv' = "closed"
  /\ UNCHANGED <<pc, exit, ending, requests, reader, released, sent, wire,
                 buffer, lines, currentToolCall, toolCallAccumulator, pending,
                 events, responses, decoded>>
  /\ UNCHANGED loopFrame

\* A read may end anywhere in the text, also inside the prefix or a payload:
\* Piece(tok, 1) and Piece(tok, 2) are the two parts of the text of tok cut
\* at such a place.  A newline or a blank is one character and has no parts.
Piece(tok, k) == [t |-> "PIECE", of |-> tok, k |-> k]

Splittable(tok) == tok.t \notin {"NL", "WS", "PIECE"}

\* buffer += decoder.decode(value, { stream: true }): the concatenation of
\* the texts, in which the two parts of a token make up the token again.
Concat(a, b) ==
  IF /\ a # <<>>
     /\ b # <<>>
     /\ a[Len(a)].t = "PIECE"
     /\ b[1].t = "PIECE"
     /\ a[Len(a)].k = 1
     /\ b[1].k = 2
     /\ a[Len(a)].of = b[1].of
  THEN SubSeq(a, 1, Len(a) - 1) \o <<b[1].of>> \o Tail(b)
  ELSE a \o b

\* The read whose text replaces the buffer instead of being added to it.
ReadChunkDropsBuffer(n) ==
  /\ pc = "run"
  /\ lines = <<>>
  /\ n \in 1..Len(wire)
  /\ LET parts == Split(SubSeq(wire, 1, n))
     IN /\ lines' = SubSeq(parts, 1, Len(parts) - 1)
        /\ buffer' = parts[Len(parts)]
  /\ wire' = SubSeq(wire, n + 1, Len(wire))
  /\ UNCHANGED <<pc, exit, ending, requests, reader, released, srv, sent,
                 currentToolCall, toolCallAccumulator, pending, events,
                 responses, decoded>>
  /\ UNCHANGED loopFrame

\* reader.read() resolves with the next n tokens of the body; the buffer is
\* split into its complete lines and the incomplete rest.
ReadChunk(n) ==
  /\ pc = "run"
  /\ lines = <<>>
  /\ n \in 1..Len(wire)
  /\ LET parts == Split(Concat(buffer, SubSeq(wire, 1, n)))
     IN /\ lines' = SubSeq(parts, 1, Len(parts) - 1)
        /\ buffer' = parts[Len(parts)]
  /\ wire' = SubSeq(wire, n + 1, Len(wire))
  /\ UNCHANGED <<pc, exit, ending, requests, reader, released, srv, sent,
                 currentToolCall, toolCallAccumulator, pending, events,
                 responses, decoded>>
  /\ UNCHANGED loopFrame

\* reader.read() resolves with a chunk that ends inside the token after the
\* next n ones: its first part is read, its second part stays on the wire.
ReadSplit(n) ==
  /\ pc = "run"
  /\ lines = <<>>
  /\ n \in 0..(Len(wire) - 1)
  /\ Splittable(wire[n + 1])
  /\ LET parts == Split(Concat(buffer, SubSeq(wire, 1, n)
                                         \o <<Piece(wire[n + 1], 1)>>))
     IN /\ lines' = SubSeq(parts, 1, Len(parts) - 1)
        /\ buffer' = parts[Len(parts)]
  /\ wire' = <<Piece(wire[n + 1], 2)>> \o SubSeq(wire, n + 2, Len(wire))
  /\ UNCHANGED <<pc, exit, ending, requests, reader, released, srv, sent,
                 currentToolCall, toolCallAccumulator, pending, events,
                 responses, decoded>>
  /\ UNCHANGED loopFrame

\* The end of the transport without the closing logic after the loop.
ReadDoneNoFlush ==
  /\ pc = "run"
  /\ lines = <<>>
  /\ wire = <<>>
  /\ srv = "closed"
  /\ ending' = "eof"
  /\ Finally("return")
  /\ UNCHANGED <<requests, srv, sent, wire, buffer, lines, currentToolCall,
                 toolCallAccumulator, pending, events, responses, decoded>>
  /\ UNCHANGED loopFrame

\* reader.read() resolves with done: the loop is left and the closing logic
\* runs.
ReadDone ==
  /\ pc = "run"
  /\ lines = <<>>
  /\ wire = <<>>
  /\ srv = "closed"
  /\ CloseOut("eof")
  /\ UNCHANGED <<requests, srv, sent, wire, buffer, lines, currentToolCall,
                 pending, decoded>>
  /\ UNCHANGED loopFrame

\* reader.read() rejects (the connection fails): the error leaves the
\* generator through the finally block.
ReadFail ==
  /\ pc = "run"
  /\ lines = <<>>
  /\ Finally("throw")
  /\ UNCHANGED <<ending, requests, srv, sent, wire, buffer, lines,
                 currentToolCall, toolCallAccumulator, pending, events,
                 responses, decoded>>
  /\ UNCHANGED loopFrame

\* A catch block that lets the error go: the generator throws.
WarnRethrow ==
  /\ Finally("throw")
  /\ UNCHANGED <<ending, currentToolCall, toolCallAccumulator, pending,
                 events, responses>>

\* catch (error) { console.warn(...) }: the line is given up, the loop goes on.
Warn ==
  UNCHANGED <<pc, exit, ending, reader, released, currentToolCall,
              toolCallAccumulator, pending, events, responses>>

\* Text held back while a tool call is open.
HasContentWhenIdle(delta) == delta.content # "" /\ ~currentToolCall.open

\* if (delta?.content)
HasContent(delta) == delta.content # ""

\* One iteration of `for (const line of lines)`, up to its yield if it has one.
ProcessLine ==
  /\ pc = "run"
  /\ lines # <<>>
  /\ lines' = Tail(lines)
  /\ decoded' = Append(decoded, Head(lines))
  /\ LET trimmed == Trim(Head(lines))
         data == Slice6(trimmed)
         parsed == ParseChunk(data)
         d == DeltaOf(parsed.chunk)
         st == ApplyToolCalls(
                 [cur |-> currentToolCall, acc |-> toolCallAccumulator],
                 d.delta.tool_calls)
     IN IF ~StartsWithData(trimmed)
        THEN UNCHANGED <<pc, exit, ending, reader, released, currentToolCall,
                         toolCallAccumulator, pending, events, responses>>
        ELSE IF data = <<DONE>>
        THEN /\ CloseOut("marker")
             /\ UNCHANGED <<currentToolCall, pending>>
        ELSE IF ~parsed.ok \/ ~d.ok
        THEN Warn
        ELSE IF HasContent(d.delta)
        THEN /\ Yield(TextEvent(d.delta.content))
             /\ pc' = "yieldText"
             /\ pending' = d.delta.tool_calls
             /\ UNCHANGED <<exit, ending, reader, released, currentToolCall,
                            toolCallAccumulator>>
        ELSE /\ currentToolCall' = st.cur
             /\ toolCallAccumulator' = st.acc
             /\ UNCHANGED <<pc, exit, ending, reader, released, pending,
                            events, responses>>
  /\ UNCHANGED <<requests, srv, sent, wire, buffer>>
  /\ UNCHANGED loopFrame

\* next() after a text event: the rest of the delta (its tool_calls) is
\* handled and the loop goes on.
ResumeText ==
  /\ pc = "yieldText"
  /\ LET st == ApplyToolCalls(
                 [cur |-> currentToolCall, acc |-> toolCallAccumulator],
                 pending)
     IN /\ currentToolCall' = st.cur
        /\ toolCallAccumulator' = st.acc
  /\ pending' = <<>>
  /\ pc' = "run"
  /\ UNCHANGED <<exit, ending, requests, reader, released, srv, sent, wire,
                 buffer, lines, events, responses, decoded>>
  /\ UNCHANGED loopFrame

\* Resuming after the batch without the `return` of the [DONE] branch: the
\* loop goes on.
ResumeBatchNoReturn ==
  /\ pc = "yieldBatch"
  /\ IF ending = "marker"
     THEN /\ pc' = "run"
          /\ UNCHANGED <<exit, reader, released>>
     ELSE Finally("return")
  /\ UNCHANGED <<ending, requests, srv, sent, wire, buffer, lines,
                 currentToolCall, toolCallAccumulator, pending, events,
                 responses, decoded>>
  /\ UNCHANGED loopFrame

\* next() after the batch event: `return` (on [DONE]) or the end of the try
\* block (after the loop), through the finally block either way.
ResumeBatch ==
  /\ pc = "yieldBatch"
  /\ Finally("return")
  /\ UNCHANGED <<ending, requests, srv, sent, wire, buffer, lines,
                 currentToolCall, toolCallAccumulator, pending, events,
                 responses, decoded>>
  /\ UNCHANGED loopFrame

\* Leaving with the closing logic run on the way out.
AbandonFlush ==
  /\ pc \in {"yieldText", "yieldBatch"}
  /\ Finally("abandon")
  /\ IF ending = "none"
        /\ PushCurrent(currentToolCall, toolCallAccumulator) # <<>>
     THEN Yield(BatchEvent(PushCurrent(currentToolCall, toolCallAccumulator)))
     ELSE UNCHANGED <<events, responses>>
  /\ UNCHANGED <<ending, requests, srv, sent, wire, buffer, lines,
                 currentToolCall, toolCallAccumulator, pending, decoded>>
  /\ UNCHANGED loopFrame

\* The consumer leaves its loop at an event (return() on the suspended
\* generator): the finally block runs and nothing else.
Abandon ==
  /\ pc \in {"yieldText", "yieldBatch"}
  /\ Finally("abandon")
  /\ UNCHANGED <<ending, requests, srv, sent, wire, buffer, lines,
                 currentToolCall, toolCallAccumulator, pending, events,
                 responses, decoded>>
  /\ UNCHANGED loopFrame

\* A pull that starts the call over: the request is sent again.
PullEndedRestarts ==
  /\ pc = "ended"
  /\ pulls < MaxPulls
  /\ pulls' = pulls + 1
  /\ pc' = "fetch"
  /\ requests' = requests + 1
  /\ log' = Append(log, Request("chat", model, TRUE))
  /\ timer' = "armed"
  /\ UNCHANGED <<exit, ending, reader, released, srv, sent, wire, buffer,
                 lines, currentToolCall, toolCallAccumulator, pending, events,
                 responses, decoded, fetched>>
  /\ UNCHANGED <<generator, model, displayName, initialize, chatCompletion,
                 conv, config, clock>>

\* next() on the generator after it has ended (by return, by an error or by
\* return() of the consumer): it resolves with done and runs no code of the
\* function.
PullEnded ==
  /\ pc = "ended"
  /\ pulls < MaxPulls
  /\ pulls' = pulls + 1
  /\ UNCHANGED <<pc, exit, ending, requests, reader, released, srv, sent,
                 wire, buffer, lines, currentToolCall, toolCallAccumulator,
                 pending, events, responses, decoded, timer, fetched>>
  /\ UNCHANGED <<clientVars, conv, config, clock>>

\* The generator run over complete lines by a consumer that pulls every
\* event: the loop body of ProcessLine and ResumeText line after line.  over
\* says the terminal marker was met.
ReplayStart == [cur |-> NoCall, acc |-> <<>>, events |-> <<>>, over |-> FALSE]

RECURSIVE ReplayLines(_, _)
ReplayLines(st, ls) ==
  IF ls = <<>> THEN st
  ELSE
    LET trimmed == Trim(Head(ls))
        data == Slice6(trimmed)
        parsed == ParseChunk(data)
        d == DeltaOf(parsed.chunk)
        acc == PushCurrent(st.cur, st.acc)
        ap == ApplyToolCalls([cur |-> st.cur, acc |-> st.acc],
                             d.delta.tool_calls)
    IN IF ~StartsWithData(trimmed) THEN ReplayLines(st, Tail(ls))
       ELSE IF data = <<DONE>>
       THEN [st EXCEPT !.acc = acc,
                       !.events = IF acc # <<>>
                                  THEN Append(@, BatchEvent(acc)) ELSE @,
                       !.over = TRUE]
       ELSE IF ~parsed.ok \/ ~d.ok THEN ReplayLines(st, Tail(ls))
       ELSE ReplayLines(
              [st EXCEPT !.cur = ap.cur,
                         !.acc = ap.acc,
                         !.events = IF HasContent(d.delta)
                                    THEN Append(@, TextEvent(d.delta.content))
                                    ELSE @],
              Tail(ls))

\* The same up to the end of the transport.
ReplayStream(ls) ==
  LET st == ReplayLines(ReplayStart, ls)
      acc == PushCurrent(st.cur, st.acc)
  IN IF st.over THEN st
     ELSE [st EXCEPT !.acc = acc,
                     !.events = IF acc # <<>>
                                THEN Append(@, BatchEvent(acc)) ELSE @]

\* The steps of the generator and of its consumer.
Client ==
  \/ StartStream
  \/ \E outcome \in FetchOutcomes \cup {"nobody"} : Fetch(outcome)
  \/ \E n \in 1..Len(wire) : ReadChunk(n)
  \/ ReadDone
  \/ ReadFail
  \/ ProcessLine
  \/ ResumeText
  \/ ResumeBatch
  \/ Abandon

Next ==
  \/ \E line \in LineSet : ServerSend(line)
  \/ \E line \in LineSet : ServerSendUnterminated(line)
  \/ ServerClose
  \/ Client

Spec == Init /\ [][Next]_vars

\* The same call against a server whose lines are mostly malformed ones, of
\* every kind.
NextMalformed ==
  \/ \E line \in MalformedLineSet : ServerSend(line)
  \/ \E line \in MalformedLineSet : ServerSendUnterminated(line)
  \/ ServerClose
  \/ Client

SpecMalformed == Init /\ [][NextMalformed]_vars

-----------------------------------------------------------------------------
\* Discovery: createContentGenerator and initialize().

\* The generator handed out although initialize() has failed.
createContentGeneratorAnyway(result) == generator' = "returned"

\* createContentGenerator after `await client.initialize()`: the generator is
\* returned when initialize() has succeeded, its rejection is passed on.
createContentGenerator(result) ==
  generator' = IF result = "ok" THEN "returned" ELSE "failed"

\* The selection with the two shapes tried the other way round.
SelectModelDataFirst(modelsResponse) ==
  IF modelsResponse.hasData /\ Len(modelsResponse.data) > 0
  THEN [ok |-> TRUE, id |-> modelsResponse.data[1]]
  ELSE IF modelsResponse.hasModels /\ Len(modelsResponse.models) > 0
  THEN [ok |-> TRUE, id |-> modelsResponse.models[1]]
  ELSE [ok |-> FALSE, id |-> <<>>]

\* The active model of a models list: models[0].name, else data[0].id, else
\* none ('No models available').
SelectModel(modelsResponse) ==
  IF modelsResponse.hasModels /\ Len(modelsResponse.models) > 0
  THEN [ok |-> TRUE, id |-> modelsResponse.models[1]]
  ELSE IF modelsResponse.hasData /\ Len(modelsResponse.data) > 0
  THEN [ok |-> TRUE, id |-> modelsResponse.data[1]]
  ELSE [ok |-> FALSE, id |-> <<>>]

\* A catch block that warns and goes on: initialize() resolves.
InitializeFailsSilently(outcome, body) ==
  /\ initialize' = [pc |-> "done", result |-> "ok",
                    timer |-> TimerAfter(outcome), fetched |-> outcome,
                    modelsResponse |-> body]
  /\ createContentGenerator("ok")
  /\ UNCHANGED <<model, displayName>>

\* catch (error) { console.warn(...); throw error }, after a fetch that
\* settled as outcome and, where it was read, the body.
InitializeFails(outcome, body) ==
  /\ initialize' = [pc |-> "done", result |-> "error",
                    timer |-> TimerAfter(outcome), fetched |-> outcome,
                    modelsResponse |-> body]
  /\ createContentGenerator("error")
  /\ UNCHANGED <<model, displayName>>

\* createContentGenerator constructs the client and calls initialize(): the
\* GET of /v1/models is sent under the timer of fetchWithTimeout.
InitializeCall ==
  /\ generator = "none"
  /\ initialize.pc = "idle"
  /\ initialize' = [initialize EXCEPT !.pc = "fetch", !.timer = "armed"]
  /\ log' = Append(log, Request("models", <<>>, FALSE))
  /\ UNCHANGED <<generator, model, displayName, chatCompletion>>
  /\ UNCHANGED <<streamVars, conv, config, clock>>

\* fetch() settles.
InitializeFetch(outcome) ==
  /\ initialize.pc = "fetch"
  /\ outcome = "timeout" => initialize.timer = "armed"
  /\ IF outcome = "ok"
     THEN /\ initialize' = [initialize EXCEPT !.pc = "json",
                                              !.timer = "cleared",
                                              !.fetched = "ok"]
          /\ UNCHANGED <<generator, model, displayName>>
     ELSE InitializeFails(outcome, NoModelsResponse)
  /\ UNCHANGED <<chatCompletion, log>>
  /\ UNCHANGED <<streamVars, conv, config, clock>>

\* The identifier of an entry that has none: name (or id) is undefined.
UndefinedId == <<"undefined">>

\* response.json() resolves with the models list.  The identifier of the
\* first entry is assigned to this.model before extractModelName is called on
\* it, which throws (modelPath.split) when the identifier is undefined.
InitializeJson(modelsResponse) ==
  /\ initialize.pc = "json"
  /\ LET sel == SelectModel(modelsResponse)
     IN IF sel.ok /\ sel.id # UndefinedId
        THEN /\ model' = sel.id
             /\ displayName' = extractModelName(sel.id)
             /\ initialize' = [initialize EXCEPT
                                 !.pc = "done",
                                 !.result = "ok",
                                 !.modelsResponse = modelsResponse]
             /\ createContentGenerator("ok")
        ELSE IF sel.ok
        THEN /\ model' = sel.id
             /\ UNCHANGED displayName
             /\ initialize' = [initialize EXCEPT
                                 !.pc = "done",
                                 !.result = "error",
                                 !.modelsResponse = modelsResponse]
             /\ createContentGenerator("error")
        ELSE InitializeFails("ok", modelsResponse)
  /\ UNCHANGED <<chatCompletion, log>>
  /\ UNCHANGED <<streamVars, conv, config, clock>>

\* response.json() rejects: the body is no JSON or the connection fails.
InitializeJsonFail ==
  /\ initialize.pc = "json"
  /\ InitializeFails("ok", NoModelsResponse)
  /\ UNCHANGED <<chatCompletion, log>>
  /\ UNCHANGED <<streamVars, conv, config, clock>>

-----------------------------------------------------------------------------
\* The single-shot call.

\* The parse without the fallback of an absent content to ''.
ParseChatResponseRawContent(openaiResponse, name) ==
  IF \/ ~openaiResponse.hasChoices
     \/ openaiResponse.choices = <<>>
     \/ ~openaiResponse.choices[1].hasMessage
  THEN [ok |-> FALSE, response |-> NoResponse]
  ELSE LET message == openaiResponse.choices[1].message
       IN [ok |-> TRUE,
           response |->
             [returned |-> TRUE,
              content |-> message.content,
              model |-> name,
              hasToolCalls |-> message.hasToolCalls,
              tool_calls |-> message.tool_calls,
              hasUsage |-> openaiResponse.hasUsage,
              usage |-> openaiResponse.usage]]

\* Lines 147-164: choices[0] (a TypeError without choices), 'No message in
\* response' without a message, else the LlamaCppResponse.
ParseChatResponse(openaiResponse, name) ==
  IF \/ ~openaiResponse.hasChoices
     \/ openaiResponse.choices = <<>>
     \/ ~openaiResponse.choices[1].hasMessage
  THEN [ok |-> FALSE, response |-> NoResponse]
  ELSE LET message == openaiResponse.choices[1].message
       IN [ok |-> TRUE,
           response |->
             [returned |-> TRUE,
              content |-> IF message.content.t = "string"
                          THEN message.content ELSE Str(""),
              model |-> name,
              hasToolCalls |-> message.hasToolCalls,
              tool_calls |-> message.tool_calls,
              hasUsage |-> openaiResponse.hasUsage,
              usage |-> IF openaiResponse.hasUsage
                        THEN openaiResponse.usage ELSE NoUsage]]

\* chatCompletion(request) up to its await: the request is built from
\* this.model and sent under the timer of fetchWithTimeout.
ChatCompletionCall ==
  /\ generator = "returned"
  /\ chatCompletion.pc = "idle"
  /\ chatCompletion' = [chatCompletion EXCEPT !.pc = "fetch",
                                              !.timer = "armed"]
  /\ log' = Append(log, Request("chat", model, FALSE))
  /\ UNCHANGED <<generator, model, displayName, initialize>>
  /\ UNCHANGED <<streamVars, conv, config, clock>>

\* A status that is no success taken for a success.
ChatCompletionFetchNoStatusCheck(outcome) ==
  /\ chatCompletion.pc = "fetch"
  /\ outcome = "timeout" => chatCompletion.timer = "armed"
  /\ IF outcome \in {"ok", "status"}
     THEN chatCompletion' = [chatCompletion EXCEPT !.pc = "json",
                                                   !.timer = "cleared",
                                                   !.fetched = outcome]
     ELSE chatCompletion' = [chatCompletion EXCEPT !.pc = "done",
                                                   !.result = "error",
                                                   !.timer = TimerAfter(outcome),
                                                   !.fetched = outcome]
  /\ UNCHANGED <<generator, model, displayName, initialize, log>>
  /\ UNCHANGED <<streamVars, conv, config, clock>>

\* fetch() settles: 'llama.cpp server error' on a status that is no success.
ChatCompletionFetch(outcome) ==
  /\ chatCompletion.pc = "fetch"
  /\ outcome = "timeout" => chatCompletion.timer = "armed"
  /\ IF outcome = "ok"
     THEN chatCompletion' = [chatCompletion EXCEPT !.pc = "json",
                                                   !.timer = "cleared",
                                                   !.fetched = outcome]
     ELSE chatCompletion' = [chatCompletion EXCEPT !.pc = "done",
                                                   !.result = "error",
                                                   !.timer = TimerAfter(outcome),
                                                   !.fetched = outcome]
  /\ UNCHANGED <<generator, model, displayName, initialize, log>>
  /\ UNCHANGED <<streamVars, conv, config, clock>>

\* The response's model taken over as the client's.
ChatCompletionJsonAdoptsModel(openaiResponse) ==
  /\ chatCompletion.pc = "json"
  /\ LET r == ParseChatResponse(openaiResponse, displayName)
     IN chatCompletion' =
          [chatCompletion EXCEPT !.pc = "done",
                                 !.result = IF r.ok THEN "ok" ELSE "error",
                                 !.openaiResponse = openaiResponse,
                                 !.response = r.response]
  /\ model' = openaiResponse.model
  /\ UNCHANGED <<generator, displayName, initialize, log>>
  /\ UNCHANGED <<streamVars, conv, config, clock>>

\* response.json() resolves with the body.
ChatCompletionJson(openaiResponse) ==
  /\ chatCompletion.pc = "json"
  /\ LET r == ParseChatResponse(openaiResponse, displayName)
     IN chatCompletion' =
          [chatCompletion EXCEPT !.pc = "done",
                                 !.result = IF r.ok THEN "ok" ELSE "error",
                                 !.openaiResponse = openaiResponse,
                                 !.response = r.response]
  /\ UNCHANGED <<generator, model, displayName, initialize, log>>
  /\ UNCHANGED <<streamVars, conv, config, clock>>

\* response.json() rejects.
ChatCompletionJsonFail ==
  /\ chatCompletion.pc = "json"
  /\ chatCompletion' = [chatCompletion EXCEPT !.pc = "done",
                                              !.result = "error"]
  /\ UNCHANGED <<generator, model, displayName, initialize, log>>
  /\ UNCHANGED <<streamVars, conv, config, clock>>

-----------------------------------------------------------------------------
\* What the server may answer.

MaxIdLen == 3

\* The identifiers a models list may name.
ModelIds == UNION {[1..n -> ModelChars] : n \in 0..MaxIdLen}

OtherId == <<"m">>

\* A list of a models response: absent, empty, of one entry or of two.
ListsOf(ids) ==
  {[has |-> FALSE, l |-> <<>>], [has |-> TRUE, l |-> <<>>]}
    \cup {[has |-> TRUE, l |-> <<x>>] : x \in ids}
    \cup {[has |-> TRUE, l |-> <<x, OtherId>>] : x \in ids}

DiscoveryResponses ==
  {ModelsResponse(m.has, m.l, d.has, d.l) :
     m \in ListsOf(ModelIds), d \in ListsOf({OtherId})}
    \cup {ModelsResponse(m.has, m.l, d.has, d.l) :
            m \in ListsOf({}), d \in ListsOf(ModelIds)}

\* Discovery alone, over every models list.
NextDiscovery ==
  \/ InitializeCall
  \/ \E outcome \in FetchOutcomes : InitializeFetch(outcome)
  \/ \E modelsResponse \in DiscoveryResponses : InitializeJson(modelsResponse)
  \/ InitializeJsonFail

SpecDiscovery == InitClient /\ [][NextDiscovery]_vars

\* The answers to the calls of one client.
ClientModelsResponses ==
  {ModelsResponse(TRUE, <<DiscoveredModel, OtherId>>, TRUE, <<OtherId>>),
   ModelsResponse(FALSE, <<>>, TRUE, <<OtherId>>),
   ModelsResponse(TRUE, <<>>, FALSE, <<>>)}

ToolCallF ==
  [id |-> "a", type |-> "function",
   function |-> [name |-> <<"f">>, arguments |-> <<"{", "}">>]]

Messages ==
  {Message(c, tc.has, tc.l) :
     c \in {Undefined, Null, Str(""), Str("Hi")},
     tc \in {[has |-> FALSE, l |-> <<>>], [has |-> TRUE, l |-> <<>>],
             [has |-> TRUE, l |-> <<ToolCallF>>]}}

ChatResponses ==
  {ChatResponse(TRUE, <<Choice(TRUE, m)>>, u.has, u.usage) :
     m \in Messages,
     u \in {[has |-> FALSE, usage |-> NoUsage], [has |-> TRUE, usage |-> Usage(2, 1)]}}
    \cup {ChatResponse(FALSE, <<>>, FALSE, NoUsage),
          ChatResponse(TRUE, <<>>, TRUE, Usage(2, 1)),
          ChatResponse(TRUE, <<Choice(FALSE, Message(Undefined, FALSE, <<>>))>>,
                       FALSE, NoUsage),
          ChatResponse(TRUE, <<Choice(FALSE, Message(Undefined, FALSE, <<>>)),
                               Choice(TRUE, Message(Str("Hi"), FALSE, <<>>))>>,
                       FALSE, NoUsage)}

ClientLineSet == {DataLine(TextOpenB), DataLine(DONE)}

\* The streaming call with a consumer that also pulls after the end.
ConsumeLineSet ==
  {DataLine(Text1), DataLine(OpenA), DataLine(TextOpenB), DataLine(JUNK),
   DataLine(DONE)}

NextConsume ==
  \/ \E line \in ConsumeLineSet : ServerSend(line)
  \/ \E line \in ConsumeLineSet : ServerSendUnterminated(line)
  \/ ServerClose
  \/ Client
  \/ PullEnded

SpecConsume == Init /\ [][NextConsume]_vars

\* One client from its construction on: discovery, then a single-shot call
\* and a streaming call, in any interleaving.
NextClient ==
  \/ InitializeCall
  \/ \E outcome \in FetchOutcomes : InitializeFetch(outcome)
  \/ \E modelsResponse \in ClientModelsResponses :
       InitializeJson(modelsResponse)
  \/ InitializeJsonFail
  \/ ChatCompletionCall
  \/ \E outcome \in FetchOutcomes : ChatCompletionFetch(outcome)
  \/ \E openaiResponse \in ChatResponses : ChatCompletionJson(openaiResponse)
  \/ ChatCompletionJsonFail
  \/ \E line \in ClientLineSet : ServerSend(line)
  \/ \E line \in ClientLineSet : ServerSendUnterminated(line)
  \/ ServerClose
  \/ Client

SpecClient == InitClient /\ [][NextClient]_vars

-----------------------------------------------------------------------------
\* The runtime fires an armed timer while its fetch is still pending, and runs
\* the steps of the generator that wait for nothing outside: a read of bytes
\* that have arrived or of the end of the body, the loop over the lines read.
\* Nothing obliges the server to answer, nor the consumer to pull.
TimerFires ==
  \/ InitializeFetch("timeout")
  \/ ChatCompletionFetch("timeout")
  \/ Fetch("timeout")

RuntimeFairness ==
  /\ WF_vars(TimerFires)
  /\ WF_vars(\E n \in 1..Len(wire) : ReadChunk(n))
  /\ WF_vars(ReadDone)
  /\ WF_vars(ProcessLine)

SpecClientFair == SpecClient /\ RuntimeFairness

\* C11. Every network call is bounded by its timeout: a call that waits for
\* the server, for the response headers or for the response body, is
\* cancelled when the timeout expires, so that initialize(), chatCompletion()
\* and each pull of chatCompletionStream() eventually complete or fail,
\* whatever the server does.
NeverHangs ==
  /\ (initialize.pc \in {"fetch", "json"}) ~> (initialize.pc = "done")
  /\ (chatCompletion.pc \in {"fetch", "json"}) ~> (chatCompletion.pc = "done")
  /\ (pc \in {"fetch", "run"}) ~> (pc \in {"yieldText", "yieldBatch", "ended"})

-----------------------------------------------------------------------------
\* A models list with at least one entry in one of its two shapes.
HasModelsEntry(r) == r.hasModels /\ Len(r.models) >= 1
HasDataEntry(r) == r.hasData /\ Len(r.data) >= 1
HasEntry(r) == HasModelsEntry(r) \/ HasDataEntry(r)

InitializeDone == initialize.pc = "done"
InitializeSucceeded == initialize.pc = "done" /\ initialize.result = "ok"

\* C12. initialize() on a success response that lists at least one model, in
\* either shape, succeeds and selects element 0: models[0].name when models
\* is present and not empty (also when data is present too), data[0].id
\* otherwise; the cached identifier is that element's identifier, unchanged.
InitializeSelectsFirst ==
  LET r == initialize.modelsResponse
  IN /\ (InitializeDone /\ HasEntry(r)) => InitializeSucceeded
     /\ InitializeSucceeded =>
          /\ HasEntry(r)
          /\ generator = "returned"
          /\ model = IF HasModelsEntry(r) THEN r.models[1] ELSE r.data[1]

\* Both shapes were present with different first entries, and the first of
\* two models was selected.
InitializeSelectsFirstWitness ==
  LET r == initialize.modelsResponse
  IN /\ InitializeSucceeded
     /\ Len(r.models) = 2
     /\ HasDataEntry(r)
     /\ r.models[1] # r.data[1]
     /\ r.models[1] # r.models[2]
     /\ model = r.models[1]

\* C13. initialize() fails whenever the endpoint is unreachable or times out,
\* answers with a status that is no success, or lists no model in either
\* shape (each list absent or empty); it reports success in none of these
\* cases, and createContentGenerator fails with it.
InitializeFailsWithoutModel ==
  /\ initialize.fetched \in {"error", "timeout", "status"} =>
       /\ InitializeDone
       /\ initialize.result = "error"
       /\ generator = "failed"
  /\ (InitializeDone /\ ~HasEntry(initialize.modelsResponse)) =>
       /\ initialize.result = "error"
       /\ generator = "failed"

\* Both lists were there and empty, and the call failed.
InitializeFailsWithoutModelWitness ==
  /\ InitializeDone
  /\ initialize.result = "error"
  /\ initialize.modelsResponse.hasModels
  /\ initialize.modelsResponse.hasData
  /\ generator = "failed"

\* The index of the last path separator of an identifier (0 without one).
LastSeparator(id) ==
  IF \E i \in DOMAIN id : id[i] = "/"
  THEN CHOOSE i \in DOMAIN id :
         id[i] = "/" /\ \A j \in DOMAIN id : id[j] = "/" => j <= i
  ELSE 0

\* The text after the last path separator.
LastComponent(id) == SubSeq(id, LastSeparator(id) + 1, Len(id))

EndsWithExt(name) == name # <<>> /\ name[Len(name)] = ".gguf"

HasSeparator(name) == \E i \in DOMAIN name : name[i] = "/"

\* The display name has no path separator and does not end with the
\* extension.
DisplayNameClean ==
  InitializeSucceeded => ~HasSeparator(displayName) /\ ~EndsWithExt(displayName)

\* C14. The display name of the selected identifier is its last path
\* component with one extension at the end taken off: it has no path
\* separator, and it ends with the extension only when that component ends
\* with the extension twice.
DisplayNameStripped ==
  InitializeSucceeded =>
    LET c == LastComponent(model)
    IN /\ ~HasSeparator(displayName)
       /\ displayName = IF EndsWithExt(c) THEN SubSeq(c, 1, Len(c) - 1) ELSE c
       /\ EndsWithExt(displayName) =>
            (Len(c) >= 2 /\ c[Len(c)] = ".gguf" /\ c[Len(c) - 1] = ".gguf")

\* A file in a directory, with its extension, was selected.
DisplayNameStrippedWitness ==
  /\ InitializeSucceeded
  /\ model = <<"/", "m", ".gguf">>
  /\ displayName = <<"m">>

-----------------------------------------------------------------------------
\* The chat-completions requests of the log.
ChatRequests == {i \in DOMAIN log : log[i].endpoint = "chat"}

\* The identifier a models list makes the active one.
SelectedId(r) == IF HasModelsEntry(r) THEN r.models[1] ELSE r.data[1]

\* Whenever a chat-completions request has been sent, initialize() has
\* succeeded, its own request came first and the request names a model.
RequestsAfterDiscovery ==
  \A i \in ChatRequests :
    /\ InitializeSucceeded
    /\ generator = "returned"
    /\ \E j \in 1..(i - 1) : log[j].endpoint = "models"
    /\ log[i].model # NoModel

\* The step that sends a chat-completions request starts from a state in
\* which initialize() has succeeded.
RequestStep ==
  (Len(log') > Len(log) /\ log'[Len(log')].endpoint = "chat") =>
    InitializeSucceeded

\* C15. No chat-completions request, single-shot or streaming, is sent before
\* initialize() has completed successfully, and none is sent with the empty
\* initial model identifier.
NoRequestBeforeDiscovery == []RequestsAfterDiscovery /\ [][RequestStep]_vars

\* A streaming and a single-shot request were sent after discovery.
NoRequestBeforeDiscoveryWitness ==
  /\ Len(log) = 3
  /\ log[1].endpoint = "models"
  /\ log[2].endpoint = "chat" /\ log[2].stream
  /\ log[3].endpoint = "chat" /\ ~log[3].stream

\* A step that is no step of initialize() leaves the cached fields alone.
CachedFieldsStep ==
  (initialize' = initialize) => (model' = model /\ displayName' = displayName)

\* Every chat-completions request carries the identifier selected by the
\* successful initialize(), which is the cached one.
RequestsCarryModel ==
  /\ InitializeSucceeded => model = SelectedId(initialize.modelsResponse)
  /\ \A i \in ChatRequests :
       log[i].model = SelectedId(initialize.modelsResponse)

\* C16. The cached model identifier and display name are written by
\* initialize() only: the steps of chatCompletion and chatCompletionStream,
\* failing or not and however interleaved, leave them unchanged, and every
\* chat-completions request carries as model the identifier cached by the
\* successful initialize().
CachedFieldsReadOnly == []RequestsCarryModel /\ [][CachedFieldsStep]_vars

\* A single-shot call sent while the streaming call was under way has
\* returned, and the streaming call has failed on a read.
CachedFieldsReadOnlyWitness ==
  /\ Len(log) = 3
  /\ log[2].stream
  /\ chatCompletion.pc = "done"
  /\ chatCompletion.result = "ok"
  /\ exit = "throw"
  /\ reader = "released"
  /\ model = DiscoveredModel

\* C17. A status that is no success on the chat-completions endpoint is a
\* hard failure without retry: chatCompletion rejects and returns no
\* response, chatCompletionStream rejects before it has yielded any event, and
\* either call has issued exactly one request.
StatusIsHardFailure ==
  /\ chatCompletion.fetched = "status" =>
       /\ chatCompletion.pc = "done"
       /\ chatCompletion.result = "error"
       /\ ~chatCompletion.response.returned
       /\ Cardinality({i \in ChatRequests : ~log[i].stream}) = 1
  /\ fetched = "status" =>
       /\ pc = "ended"
       /\ exit = "throw"
       /\ events = <<>>
       /\ responses = <<>>
       /\ reader = "none"
       /\ requests = 1
       /\ Cardinality({i \in ChatRequests : log[i].stream}) = 1

\* Both calls were answered with a status that is no success.
StatusIsHardFailureWitness ==
  /\ chatCompletion.fetched = "status"
  /\ fetched = "status"

-----------------------------------------------------------------------------
\* What a decoded stream says, read off the lines themselves.

\* The payload of a data line (<<>> for any other line).
PayloadOf(line) ==
  LET t == Trim(line)
  IN IF Len(t) >= 2 /\ t[1] = DATA THEN Trim(SubSeq(t, 2, Len(t))) ELSE <<>>

IsDoneLine(line) ==
  LET t == Trim(line) IN Len(t) = 2 /\ t[1] = DATA /\ t[2] = DONE

\* A data line whose payload is one JSON object with a choices[0].delta.
IsDeltaLine(line) ==
  LET q == PayloadOf(line)
  IN /\ Len(q) = 1
     /\ q[1].t = "JSON"
     /\ q[1].chunk.hasChoices
     /\ q[1].chunk.choices # <<>>
     /\ q[1].chunk.choices[1].hasDelta

\* A data line that is neither the terminal marker nor a delta: its payload
\* is no JSON, or JSON without the choices/delta shape.
IsMalformedLine(line) ==
  PayloadOf(line) # <<>> /\ ~IsDoneLine(line) /\ ~IsDeltaLine(line)

LineDelta(line) ==
  IF IsDeltaLine(line) THEN PayloadOf(line)[1].chunk.choices[1].delta
  ELSE NoDelta

\* All elements of delta.tool_calls of the lines ls, in arrival order.
RECURSIVE AllTcds(_)
AllTcds(ls) ==
  IF ls = <<>> THEN <<>>
  ELSE LineDelta(Head(ls)).tool_calls \o AllTcds(Tail(ls))

\* The elements already gone through: all of them, but for those of the
\* delta that is (or was, when the call was left there) suspended at its text
\* event.
AppliedOf(dec, pend) ==
  LET all == AllTcds(dec)
  IN SubSeq(all, 1, Len(all) - Len(pend))

AppliedTcds == AppliedOf(decoded, pending)

Opens(tcd) == tcd.index = 0 /\ tcd.id # ""

\* Concatenation of the name (arguments) fragments of F[i..], up to the
\* next element that opens a call.
RECURSIVE NameFrom(_, _)
NameFrom(F, i) ==
  IF i > Len(F) \/ Opens(F[i]) THEN <<>> ELSE F[i].name \o NameFrom(F, i + 1)

RECURSIVE ArgumentsFrom(_, _)
ArgumentsFrom(F, i) ==
  IF i > Len(F) \/ Opens(F[i]) THEN <<>>
  ELSE F[i].arguments \o ArgumentsFrom(F, i + 1)

\* The call opened by F[i].
CallOpenedAt(F, i) ==
  [id |-> F[i].id, type |-> "function",
   function |-> [name |-> F[i].name \o NameFrom(F, i + 1),
                 arguments |-> F[i].arguments \o ArgumentsFrom(F, i + 1)]]

\* The calls the elements F describe, in the order they were opened.
RECURSIVE CallsFrom(_, _)
CallsFrom(F, i) ==
  IF i > Len(F) THEN <<>>
  ELSE IF Opens(F[i]) THEN <<CallOpenedAt(F, i)>> \o CallsFrom(F, i + 1)
  ELSE CallsFrom(F, i + 1)

ExpectedCalls(F) == CallsFrom(F, 1)

IsBatch(ev) == ev.type = "batch"
IsText(ev) == ev.type = "text"

BatchIndices == {i \in DOMAIN events : IsBatch(events[i])}

-----------------------------------------------------------------------------
\* C1. Streaming reconstruction: the completed calls followed by the open one
\* are, at every point of the loop, the calls the deltas gone through so far
\* describe: in the order they were opened, each with the id of its opening
\* delta and with name and arguments equal to the concatenation, in arrival
\* order, of the fragments from its opening delta up to the next opening; and
\* an emitted batch holds exactly the calls of all decoded deltas.
StreamingReconstruction ==
  /\ pc \in {"run", "yieldText"} =>
       PushCurrent(currentToolCall, toolCallAccumulator)
         = ExpectedCalls(AppliedTcds)
  /\ \A i \in BatchIndices :
       events[i].tool_calls = ExpectedCalls(AllTcds(decoded))

\* A batch of two calls, the first with a name put together from two
\* fragments.
StreamingReconstructionWitness ==
  \E i \in BatchIndices :
    /\ Len(events[i].tool_calls) = 2
    /\ events[i].tool_calls[1].id = "a"
    /\ events[i].tool_calls[1].function.name = <<"f", "g">>
    /\ events[i].tool_calls[1].function.arguments = <<"{", "k">>
    /\ events[i].tool_calls[2].id = "b"
    /\ events[i].tool_calls[2].function.name = <<"g">>

\* C2. At most one batch event is emitted, and it is the last event: nothing
\* (no text, no second batch) follows it, however the stream ends.
BatchIsLast ==
  /\ Cardinality(BatchIndices) <= 1
  /\ \A i \in BatchIndices : i = Len(events)

\* The call has ended by the marker with texts and then its batch.
BatchIsLastWitness ==
  /\ pc = "ended"
  /\ ending = "marker"
  /\ lines # <<>>
  /\ Len(events) >= 2
  /\ IsBatch(events[Len(events)])
  /\ IsText(events[1])

\* The contents of the deltas of ls that carry text, in order.
RECURSIVE TextsOf(_)
TextsOf(ls) ==
  IF ls = <<>> THEN <<>>
  ELSE (IF LineDelta(Head(ls)).content # ""
        THEN <<LineDelta(Head(ls)).content>> ELSE <<>>) \o TextsOf(Tail(ls))

\* C3. On the terminal marker the open call is closed and enqueued; when the
\* completed list is not empty exactly one batch with all completed calls is
\* emitted, as the last event, and the sequence ends; when it is empty the
\* sequence ends with no further event.  The marker is the last line the loop
\* goes through: no line after it is processed or produces an event.
DoneMarkerTerminates ==
  /\ \A i \in DOMAIN decoded :
       IsDoneLine(decoded[i]) => i = Len(decoded) /\ ending = "marker"
  /\ ending = "marker" =>
       /\ pc \in {"yieldBatch", "ended"}
       /\ IsDoneLine(decoded[Len(decoded)])
       /\ currentToolCall.open =>
            /\ toolCallAccumulator # <<>>
            /\ toolCallAccumulator[Len(toolCallAccumulator)]
                 = AsToolCall(currentToolCall)
       /\ IF toolCallAccumulator # <<>>
          THEN /\ BatchIndices = {Len(events)}
               /\ events[Len(events)].tool_calls = toolCallAccumulator
          ELSE /\ BatchIndices = {}
               /\ pc = "ended"
               /\ exit = "return"
       /\ Len(events) = Len(TextsOf(decoded)) + Cardinality(BatchIndices)

\* The marker closed an open call and ended the sequence while a line read
\* together with it was still waiting.
DoneMarkerTerminatesWitness ==
  /\ ending = "marker"
  /\ pc = "ended"
  /\ exit = "return"
  /\ currentToolCall.open
  /\ toolCallAccumulator = <<AsToolCall(currentToolCall)>>
  /\ BatchIndices # {}
  /\ lines # <<>>
  /\ IsDeltaLine(lines[1])

\* C4. When the transport closes without a marker the same closing logic
\* runs: the call still open is enqueued and emitted with all calls completed
\* before it in one terminal batch.
TransportCloseFlushes ==
  ending = "eof" =>
    LET calls == ExpectedCalls(AllTcds(decoded))
    IN /\ \A i \in DOMAIN decoded : ~IsDoneLine(decoded[i])
       /\ pc \in {"yieldBatch", "ended"}
       /\ IF calls # <<>>
          THEN /\ BatchIndices = {Len(events)}
               /\ events[Len(events)].tool_calls = calls
          ELSE BatchIndices = {} /\ pc = "ended"
       /\ currentToolCall.open =>
            /\ calls # <<>>
            /\ calls[Len(calls)] = AsToolCall(currentToolCall)

\* The transport closed on an open call with another one completed before.
TransportCloseFlushesWitness ==
  /\ ending = "eof"
  /\ currentToolCall.open
  /\ currentToolCall.arguments # <<>>
  /\ BatchIndices # {}
  /\ Len(events[Len(events)].tool_calls) = 2

\* The lines of ls that are not malformed.
RECURSIVE WithoutMalformed(_)
WithoutMalformed(ls) ==
  IF ls = <<>> THEN <<>>
  ELSE (IF IsMalformedLine(Head(ls)) THEN <<>> ELSE <<Head(ls)>>)
         \o WithoutMalformed(Tail(ls))

\* Between two lines the accumulator and the events are those of the decoded
\* lines with the malformed ones taken out, and so are the events of a call
\* that has run to its end.
MalformedInvisible ==
  /\ pc = "run" =>
       LET r == ReplayLines(ReplayStart, WithoutMalformed(decoded))
       IN /\ currentToolCall = r.cur
          /\ toolCallAccumulator = r.acc
          /\ events = r.events
  /\ exit = "return" =>
       events = ReplayStream(WithoutMalformed(decoded)).events

\* The step of the loop over a malformed line: the call goes on and nothing
\* of the accumulator or of the output changes.
MalformedStep ==
  (pc = "run" /\ lines # <<>> /\ IsMalformedLine(Head(lines))) =>
    /\ pc' = "run"
    /\ exit' = "none"
    /\ currentToolCall' = currentToolCall
    /\ toolCallAccumulator' = toolCallAccumulator
    /\ events' = events
    /\ responses' = responses

\* C5. A malformed data line (no JSON, or JSON without the choices/delta
\* shape) is discarded: the call does not fail on it, the accumulator is as
\* before the line, and the events of the stream are those of the stream with
\* its malformed lines removed.
MalformedDiscarded == []MalformedInvisible /\ [][MalformedStep]_vars

\* A call that ran to its end over a stream with a malformed line between the
\* opening of a tool call and one of its fragments.
MalformedDiscardedWitness ==
  /\ exit = "return"
  /\ Len(decoded) >= 3
  /\ IsDeltaLine(decoded[1])
  /\ IsMalformedLine(decoded[2])
  /\ IsDeltaLine(decoded[3])
  /\ BatchIndices # {}
  /\ events[Len(events)].tool_calls[1].function.arguments # <<>>

RECURSIVE EventTexts(_)
EventTexts(evs) ==
  IF evs = <<>> THEN <<>>
  ELSE (IF IsText(Head(evs)) THEN <<Head(evs).text>> ELSE <<>>)
         \o EventTexts(Tail(evs))

\* C6. The text events are, at every moment, the contents of the decoded
\* deltas that carry text, in decode order and one event per delta: a text is
\* out as soon as its delta is decoded, whether or not a tool call is open.  A
\* stream whose deltas open no tool call yields no batch.
TextEventsInOrder ==
  /\ EventTexts(events) = TextsOf(decoded)
  /\ ExpectedCalls(AllTcds(decoded)) = <<>> => BatchIndices = {}

\* Two texts are out, the second while a tool call is open and before the
\* tool-call part of its own delta is handled.
TextEventsInOrderWitness ==
  /\ pc = "yieldText"
  /\ currentToolCall.open
  /\ pending # <<>>
  /\ EventTexts(events) = <<"Hel", "lo">>

RECURSIVE NumOpens(_)
NumOpens(F) ==
  IF F = <<>> THEN 0
  ELSE (IF Opens(Head(F)) THEN 1 ELSE 0) + NumOpens(Tail(F))

\* The id announced by the last opening element of F ("" when there is none).
RECURSIVE LastOpenId(_)
LastOpenId(F) ==
  IF F = <<>> THEN ""
  ELSE IF Opens(F[Len(F)]) THEN F[Len(F)].id
  ELSE LastOpenId(SubSeq(F, 1, Len(F) - 1))

OpenedSoFar == NumOpens(AppliedTcds)

\* Of the calls opened so far all are completed but at most one, the open one.
OneOpenCall ==
  OpenedSoFar = Len(toolCallAccumulator)
                  + (IF ending = "none" /\ currentToolCall.open THEN 1 ELSE 0)

\* The open call carries the id its opening delta announced.
OpenIdIsOpening ==
  currentToolCall.open => currentToolCall.id = LastOpenId(AppliedTcds)

\* Entries of the completed list stay as enqueued.
CompletedImmutable ==
  /\ Len(toolCallAccumulator') >= Len(toolCallAccumulator)
  /\ SubSeq(toolCallAccumulator', 1, Len(toolCallAccumulator))
       = toolCallAccumulator

\* While no new call is opened the open call keeps its id.
IdSetOnce ==
  NumOpens(AppliedOf(decoded', pending')) = OpenedSoFar =>
    /\ currentToolCall'.open = currentToolCall.open
    /\ currentToolCall'.id = currentToolCall.id

\* C7. Assembler invariant: at most one call is open at any time; an entry of
\* the completed list is never modified after it was enqueued; the id of a
\* call is set when it is opened and never changes.
AssemblerInvariant ==
  [](OneOpenCall /\ OpenIdIsOpening) /\ [][CompletedImmutable /\ IdSetOnce]_vars

\* Fragments arrived for the open call after another call was enqueued.
AssemblerInvariantWitness ==
  /\ pc = "run"
  /\ Len(toolCallAccumulator) >= 1
  /\ currentToolCall.open
  /\ currentToolCall.id # toolCallAccumulator[1].id
  /\ currentToolCall.arguments # <<>>

-----------------------------------------------------------------------------
\* JSON texts over the characters of the arguments, written out from the
\* grammar (numbers, the empty object, objects of one member; nesting up to
\* three deep, which covers every text the bounded streams can accumulate).

Digits(n) == [i \in 1..n |-> "1"]

NumberTexts == {Digits(n) : n \in 1..(2 * MaxLines + 2)}

Member(v) == <<"{", "k">> \o v \o <<"}">>

JSONTexts0 == NumberTexts \cup {<<"{", "}">>}
JSONTexts1 == JSONTexts0 \cup {Member(v) : v \in JSONTexts0}
JSONTexts2 == JSONTexts1 \cup {Member(v) : v \in JSONTexts1}
JSONTexts == JSONTexts2 \cup {Member(v) : v \in JSONTexts2}

\* JSON.stringify of a parsed value.
RECURSIVE Render(_)
Render(v) ==
  IF v.t = "num" THEN Digits(v.n)
  ELSE IF v.m = <<>> THEN <<"{", "}">>
  ELSE Member(Render(v.m[1].val))

\* C8. Every tool invocation delivered by the streaming generate has
\* arguments that are valid JSON: the value its accumulated arguments text
\* denotes when that text is valid JSON, and the empty object when it is not
\* (no fragment arrived, or the stream ended in the middle of one).
DeliveredArgumentsValid ==
  \A i \in BatchIndices :
    \A j \in DOMAIN events[i].tool_calls :
      LET text == events[i].tool_calls[j].function.arguments
          fc == responses[i].parts[j].functionCall
      IN /\ Len(responses[i].parts) = Len(events[i].tool_calls)
         /\ Render(fc.args) \in JSONTexts
         /\ IF text \in JSONTexts THEN Render(fc.args) = text
            ELSE fc.args = EmptyObject

\* A batch with a call whose arguments stopped in the middle of an object and
\* a call that got no arguments at all.
DeliveredArgumentsValidWitness ==
  \E i \in BatchIndices :
    /\ Len(events[i].tool_calls) = 2
    /\ events[i].tool_calls[1].function.arguments = <<"{", "k">>
    /\ events[i].tool_calls[2].function.arguments = <<>>
    /\ responses[i].parts[1].functionCall.args = EmptyObject
    /\ responses[i].parts[2].functionCall.args = EmptyObject

-----------------------------------------------------------------------------
\* A step that ends the call by abandonment or by an error emits nothing.
CancelStep ==
  (pc # "ended" /\ pc' = "ended" /\ exit' \in {"abandon", "throw"}) =>
    events' = events /\ responses' = responses

\* Nothing is emitted after the end.
AfterEnd == pc = "ended" => events' = events /\ responses' = responses

\* A call abandoned or failed before its closing logic has delivered no batch.
NoBatchDelivered ==
  (exit \in {"abandon", "throw"} /\ ending = "none") =>
    /\ BatchIndices = {}
    /\ \A i \in DOMAIN responses : responses[i].finishReason # "TOOL_CALLS"

\* C9. When the consumer abandons the sequence or a read fails, the
\* accumulator is dropped with the generator and no batch is delivered: a call
\* open or enqueued at that moment never reaches the caller.
NoBatchOnCancel == []NoBatchDelivered /\ [][CancelStep /\ AfterEnd]_vars

\* The consumer left at a text event with one call enqueued and one open.
NoBatchOnCancelWitness ==
  /\ exit = "abandon"
  /\ ending = "none"
  /\ currentToolCall.open
  /\ toolCallAccumulator # <<>>
  /\ events # <<>>

\* C10. Once the reader is taken it is released exactly once on every way
\* out (end of transport, return on the marker, abandonment at an event, a
\* failing read) and never while the call is still running.
ReaderReleasedOnce ==
  /\ reader = "none" =>
       released = 0 /\ (pc \in {"init", "fetch"} \/ exit = "throw")
  /\ reader = "locked" => released = 0 /\ pc \in {"run", "yieldText", "yieldBatch"}
  /\ reader = "released" => released = 1 /\ pc = "ended"
  /\ pc = "ended" => reader # "locked"

\* A read failed in the middle of a line after some lines were processed.
ReaderReleasedOnceWitness ==
  /\ exit = "throw"
  /\ reader = "released"
  /\ released = 1
  /\ buffer # <<>>
  /\ decoded # <<>>

-----------------------------------------------------------------------------
\* C18. chatCompletion on a success response fails exactly when the response
\* has no first choice or that choice has no message; otherwise it returns
\* the message's text (the empty string when the content is absent, null or
\* empty), the tool-call array when the message has one, and the usage
\* counters exactly when the server supplied them.
ChatCompletionParses ==
  (chatCompletion.pc = "done" /\ chatCompletion.fetched = "ok") =>
    LET b == chatCompletion.openaiResponse
        r == chatCompletion.response
        lacks == \/ ~b.hasChoices
                 \/ Len(b.choices) = 0
                 \/ ~b.choices[1].hasMessage
    IN /\ (chatCompletion.result = "error") <=> lacks
       /\ (chatCompletion.result = "ok") <=> ~lacks
       /\ r.returned <=> ~lacks
       /\ ~lacks =>
            LET msg == b.choices[1].message
            IN /\ r.content.t = "string"
               /\ r.content.s = IF msg.content.t = "string"
                                THEN msg.content.s ELSE ""
               /\ r.hasToolCalls = msg.hasToolCalls
               /\ r.tool_calls = msg.tool_calls
               /\ r.hasUsage = b.hasUsage
               /\ b.hasUsage => r.usage = b.usage

\* A message with null content, a tool call and usage counters was returned
\* as the empty text with the call and the counters.
ChatCompletionParsesWitness ==
  /\ chatCompletion.pc = "done"
  /\ chatCompletion.result = "ok"
  /\ chatCompletion.openaiResponse.choices[1].message.content = Null
  /\ chatCompletion.response.content = Str("")
  /\ Len(chatCompletion.response.tool_calls) = 1
  /\ chatCompletion.response.hasUsage
  /\ chatCompletion.response.usage.total_tokens = 3

\* No request before the first pull, one request at most.
Lazy ==
  /\ pc = "init" =>
       requests = 0 /\ events = <<>> /\ \A i \in ChatRequests : ~log[i].stream
  /\ requests <= 1
  /\ Cardinality({i \in ChatRequests : log[i].stream}) = requests

\* An event is a text fragment or a batch of tool calls, never both.
EventsOfOneKind ==
  \A i \in DOMAIN events :
    \/ IsText(events[i]) /\ events[i].text # "" /\ events[i].tool_calls = <<>>
    \/ IsBatch(events[i]) /\ events[i].text = "" /\ events[i].tool_calls # <<>>

\* At most one event per line of the body, and one batch.
EventsBounded ==
  /\ Len(decoded) <= sent
  /\ Len(events) <= Len(decoded) + 1

\* What is left for the generator to do: the bytes to read, the lines read
\* and not yet gone through, and its place.
Rank ==
  CASE pc = "init" -> 5
    [] pc = "fetch" -> 4
    [] pc = "yieldText" -> 3
    [] pc = "run" -> 2
    [] pc = "yieldBatch" -> 1
    [] OTHER -> 0

Remaining == 3 * Len(wire) + 2 * Len(lines) + Rank

\* Every step of the generator or of its consumer, before the end, lessens
\* what is left to do.
Lessens ==
  (pc # "ended" /\ sent' = sent /\ srv' = srv) => Remaining' < Remaining

\* After the end a pull changes nothing of the call: no event, no request.
NonRestartable ==
  pc = "ended" =>
    /\ pc' = "ended"
    /\ events' = events
    /\ responses' = responses
    /\ requests' = requests
    /\ log' = log
    /\ reader' = reader

\* The steps of a consumer that keeps pulling, on a connection that holds.
Advance ==
  \/ StartStream
  \/ \E outcome \in FetchOutcomes \cup {"nobody"} : Fetch(outcome)
  \/ \E n \in 1..Len(wire) : ReadChunk(n)
  \/ ReadDone
  \/ ProcessLine
  \/ ResumeText
  \/ ResumeBatch

\* Once the body is complete the call can go on until it has ended.
EndsAfterBody == (srv = "closed" /\ pc # "ended") => ENABLED Advance

\* C19. The streaming sequence is lazy, finite and non-restartable: no
\* request is issued before the first pull; over a body of finitely many
\* chunks finitely many events are yielded and the sequence ends; after its
\* end (by the marker, the close of the transport, an error or abandonment)
\* further pulls yield no event and issue no request.  Each event is a text
\* fragment or a batch of tool calls, never both.
LazyFiniteNonRestartable ==
  /\ [](Lazy /\ EventsOfOneKind /\ EventsBounded /\ EndsAfterBody)
  /\ [][Lessens /\ NonRestartable]_vars

\* A call that yielded two texts and a batch has ended and was pulled twice
\* again.
LazyFiniteNonRestartableWitness ==
  /\ pc = "ended"
  /\ pulls = 2
  /\ Len(events) = 3
  /\ IsBatch(events[3])
  /\ requests = 1

-----------------------------------------------------------------------------
\* The translation of a canonical function call to the wire and back.

\* Values of an args object: numbers, objects of no or one member, and
\* undefined as the value of a member.
UndefinedValue == [t |-> "undefined", n |-> 0, m |-> <<>>]

\* The characters of a string as they are written between the quotes.
RECURSIVE Escape(_)
Escape(chars) ==
  IF chars = <<>> THEN <<>>
  ELSE (IF Head(chars) \in {Quote, Backslash}
        THEN <<Backslash, Head(chars)>> ELSE <<Head(chars)>>)
       \o Escape(Tail(chars))

\* JSON.stringify of a value: a member whose value is undefined is left out.
RECURSIVE JSONStringify(_)
JSONStringify(v) ==
  IF v.t = "num" THEN IF v.n = 0 THEN <<"0">> ELSE [i \in 1..v.n |-> "1"]
  ELSE IF v.t = "null" THEN <<"null">>
  ELSE IF v.t = "bool" THEN IF v.n = 1 THEN <<"true">> ELSE <<"false">>
  ELSE IF v.t = "str" THEN <<Quote>> \o Escape(v.m) \o <<Quote>>
  ELSE IF v.m = <<>> \/ v.m[1].val.t = "undefined" THEN <<"{", "}">>
  ELSE <<"{", IF v.m[1].key = "content" THEN "c" ELSE "k">>
       \o JSONStringify(v.m[1].val) \o <<"}">>

\* a || b on strings that may be undefined.
Falsy(v) == v.t # "string" \/ v.s = ""

\* Ids that generateToolCallId can make: the clock and the random part differ
\* from call to call.
GeneratedIds == {"call_1_r", "call_2_s"}

\* The conversion with a fresh id for every call.
convertGeminiFunctionCallToOpenAIFreshId(functionCall, callId, generated) ==
  [id |-> generated,
   type |-> "function",
   function |->
     [name |-> functionCall.name,
      arguments |-> JSONStringify(IF functionCall.hasArgs
                                  THEN functionCall.args ELSE EmptyObject)]]

convertGeminiFunctionCallToOpenAI(functionCall, callId, generated) ==
  [id |-> IF ~Falsy(callId) THEN callId.s
          ELSE IF ~Falsy(functionCall.id) THEN functionCall.id.s
          ELSE generated,
   type |-> "function",
   function |->
     [name |-> functionCall.name,
      arguments |-> JSONStringify(IF functionCall.hasArgs
                                  THEN functionCall.args ELSE EmptyObject)]]

\* The call of convertGeminiFunctionCallToOpenAI.
ToOpenAI ==
  /\ conv.stage = "call"
  /\ \E generated \in GeneratedIds :
       conv' = [conv EXCEPT
                  !.stage = "wire",
                  !.toolCall = convertGeminiFunctionCallToOpenAI(
                                 conv.functionCall, conv.callId, generated)]
  /\ UNCHANGED <<streamVars, clientVars, config, clock>>

\* The call of convertOpenAIToolCallToGemini on its result.
ToGemini ==
  /\ conv.stage = "wire"
  /\ conv' = [conv EXCEPT
                !.stage = "back",
                !.back = convertOpenAIToolCallToGemini(conv.toolCall)]
  /\ UNCHANGED <<streamVars, clientVars, config, clock>>

MaxDepth == 2

RECURSIVE ArgValues(_)
ArgValues(d) ==
  IF d = 0 THEN {[t |-> "num", n |-> 1, m |-> <<>>],
                 [t |-> "num", n |-> 2, m |-> <<>>],
                 EmptyObject}
  ELSE ArgValues(d - 1) \cup
       {[t |-> "obj", n |-> 1, m |-> <<[key |-> "x", val |-> v]>>] :
          v \in ArgValues(d - 1) \cup {UndefinedValue}}

\* An args object is an object.
ArgObjects == {v \in ArgValues(MaxDepth) : v.t = "obj"}

FunctionCalls ==
  {[id |-> id, name |-> name, hasArgs |-> TRUE, args |-> args] :
     id \in {Undefined, Str(""), Str("a")},
     name \in {Undefined, Str("f"), Str("g")},
     args \in ArgObjects}
  \cup
  {[id |-> id, name |-> name, hasArgs |-> FALSE, args |-> EmptyObject] :
     id \in {Undefined, Str(""), Str("a")},
     name \in {Undefined, Str("f"), Str("g")}}

CallIds == {Undefined, Str(""), Str("c")}

NoToolCall ==
  [id |-> "", type |-> "function",
   function |-> [name |-> Undefined, arguments |-> <<>>]]

NoFunctionCall == [id |-> "", name |-> Undefined, args |-> EmptyObject]

InitTranslate ==
  /\ InitStream
  /\ generator = "none"
  /\ model = NoModel
  /\ displayName = DefaultDisplayName
  /\ initialize = IdleCall
  /\ chatCompletion = IdleChat
  /\ log = <<>>
  /\ conv \in {[stage |-> "call", functionCall |-> functionCall,
               callId |-> callId, toolCall |-> NoToolCall,
               back |-> NoFunctionCall] :
                 functionCall \in FunctionCalls, callId \in CallIds}
  /\ config = NoConfig
  /\ clock = 0

NextTranslate == ToOpenAI \/ ToGemini

SpecTranslate == InitTranslate /\ [][NextTranslate]_vars

\* The JSON value that a value denotes: members that hold undefined are not
\* part of it.
RECURSIVE AsJSON(_)
AsJSON(v) ==
  IF v.t = "num" \/ v.m = <<>> THEN v
  ELSE IF v.m[1].val.t = "undefined" THEN EmptyObject
  ELSE [v EXCEPT !.m = <<[key |-> v.m[1].key, val |-> AsJSON(v.m[1].val)]>>]

\* C20. Round trip of a tool invocation: a canonical function call converted
\* to the wire tool call and back has the identical name, the same id (the
\* id of the wire form: the callId when one is passed, the id of the call
\* when it has one, a generated id otherwise) and arguments equal as parsed
\* JSON to the original args, the empty object for absent args.
RoundTrip ==
  conv.stage = "back" =>
    LET fc == conv.functionCall
        tc == conv.toolCall
        back == conv.back
    IN /\ back.name = fc.name
       /\ tc.function.name = fc.name
       /\ back.id = tc.id
       /\ back.id # ""
       /\ ~Falsy(conv.callId) => back.id = conv.callId.s
       /\ (Falsy(conv.callId) /\ ~Falsy(fc.id)) => back.id = fc.id.s
       /\ (Falsy(conv.callId) /\ Falsy(fc.id)) => back.id \in GeneratedIds
       /\ JSONParse(tc.function.arguments).ok
       /\ back.args = IF fc.hasArgs THEN AsJSON(fc.args) ELSE EmptyObject

\* A call with its own id, no callId and a nested args object came back as
\* it was.
RoundTripWitness ==
  /\ conv.stage = "back"
  /\ conv.callId = Undefined
  /\ conv.functionCall.id = Str("a")
  /\ conv.functionCall.name = Str("f")
  /\ conv.functionCall.hasArgs
  /\ conv.functionCall.args.n = 1
  /\ conv.functionCall.args.m[1].val.t = "obj"
  /\ conv.functionCall.args.m[1].val.n = 1
  /\ conv.toolCall.function.arguments = <<"{", "k", "{", "k", "1", "}", "}">>
  /\ conv.back.id = "a"
  /\ conv.back.name = Str("f")
  /\ conv.back.args = conv.functionCall.args

-----------------------------------------------------------------------------
\* The translation of the request's contents to wire messages, as written
\* out in generateContent and again in generateContentStream.

\* Text is a sequence of characters, " " for white space.
RECURSIVE TrimTextStart(_)
TrimTextStart(text) ==
  IF text # <<>> /\ Head(text) = " " THEN TrimTextStart(Tail(text)) ELSE text

RECURSIVE TrimTextEnd(_)
TrimTextEnd(text) ==
  IF text # <<>> /\ text[Len(text)] = " "
  THEN TrimTextEnd(SubSeq(text, 1, Len(text) - 1)) ELSE text

\* text.trim()
TrimText(text) == TrimTextEnd(TrimTextStart(text))

AbsentFunctionCall ==
  [id |-> Undefined, name |-> Undefined, hasArgs |-> FALSE,
   args |-> EmptyObject]

AbsentFunctionResponse ==
  [id |-> Undefined, name |-> Undefined, response |-> EmptyObject]

\* The parts of a Content: a bare string, a text part, a functionCall part
\* and a functionResponse part.
StringOfParts(text) ==
  [kind |-> "string", text |-> text, functionCall |-> AbsentFunctionCall,
   functionResponse |-> AbsentFunctionResponse]

TextOfParts(text) ==
  [kind |-> "text", text |-> text, functionCall |-> AbsentFunctionCall,
   functionResponse |-> AbsentFunctionResponse]

CallOfParts(functionCall) ==
  [kind |-> "functionCall", text |-> <<>>, functionCall |-> functionCall,
   functionResponse |-> AbsentFunctionResponse]

ResponseOfParts(functionResponse) ==
  [kind |-> "functionResponse", text |-> <<>>,
   functionCall |-> AbsentFunctionCall,
   functionResponse |-> functionResponse]

\* The elements of request.contents: a string, a Content object (with a
\* role) and a Part object.
StringContent(text) ==
  [kind |-> "string", text |-> text, role |-> "", hasParts |-> FALSE,
   parts |-> <<>>]

Content(role, parts) ==
  [kind |-> "content", text |-> <<>>, role |-> role, hasParts |-> TRUE,
   parts |-> parts]

ContentWithoutParts(role) ==
  [kind |-> "content", text |-> <<>>, role |-> role, hasParts |-> FALSE,
   parts |-> <<>>]

PartContent(part) ==
  [kind |-> "part", text |-> <<>>, role |-> "", hasParts |-> TRUE,
   parts |-> <<part>>]

\* Array.isArray(request.contents) ? request.contents : [request.contents]
ContentsOf(request) ==
  IF request.isArray THEN request.contents ELSE <<request.contents>>

\* A wire message.
WireMessage(role, content) ==
  [role |-> role, content |-> content, hasToolCalls |-> FALSE,
   tool_calls |-> <<>>, tool_call_id |-> Undefined, name |-> Undefined]

\* Whether a value is truthy.
Truthy(v) ==
  \/ v.t = "obj"
  \/ v.t \in {"num", "bool", "str"} /\ v.n > 0

\* response.content of a function response (undefined without that member).
ContentOfResponse(response) ==
  IF response.m # <<>> /\ response.m[1].key = "content"
  THEN response.m[1].val ELSE UndefinedValue

\* The tool message of a functionResponse part.
ToolMessage(functionResponse) ==
  [role |-> "tool",
   content |->
     JSONStringify(IF Truthy(ContentOfResponse(functionResponse.response))
                   THEN ContentOfResponse(functionResponse.response)
                   ELSE functionResponse.response),
   hasToolCalls |-> FALSE, tool_calls |-> <<>>,
   tool_call_id |-> functionResponse.name,
   name |-> functionResponse.name]

\* `call_${Date.now()}`
GeneratedId(now) == "call_" \o ToString(now)

\* text of the parts loop: the strings and the non-empty texts, joined.
RECURSIVE TextOfPartList(_)
TextOfPartList(parts) ==
  IF parts = <<>> THEN <<>>
  ELSE (IF Head(parts).kind \in {"string", "text"}
        THEN Head(parts).text ELSE <<>>)
       \o TextOfPartList(Tail(parts))

\* functionCalls of the parts loop.
RECURSIVE FunctionCallsOf(_)
FunctionCallsOf(parts) ==
  IF parts = <<>> THEN <<>>
  ELSE (IF Head(parts).kind = "functionCall"
        THEN <<Head(parts).functionCall>> ELSE <<>>)
       \o FunctionCallsOf(Tail(parts))

\* The tool messages pushed by the parts loop.
RECURSIVE ToolMessagesOf(_)
ToolMessagesOf(parts) ==
  IF parts = <<>> THEN <<>>
  ELSE (IF Head(parts).kind = "functionResponse"
        THEN <<ToolMessage(Head(parts).functionResponse)>> ELSE <<>>)
       \o ToolMessagesOf(Tail(parts))

\* The calls whose id is made from the clock.
Lacking(functionCalls) ==
  {i \in DOMAIN functionCalls : Falsy(functionCalls[i].id)}

\* functionCalls.map(fc => ...): nows are the readings of Date.now(), one for
\* each call without id, in order.
ToolCallsOf(functionCalls, nows) ==
  [i \in DOMAIN functionCalls |->
     [id |-> IF Falsy(functionCalls[i].id)
             THEN GeneratedId(
                    nows[Cardinality({j \in Lacking(functionCalls) : j <= i})])
             ELSE functionCalls[i].id.s,
      type |-> "function",
      function |->
        [name |-> functionCalls[i].name,
         arguments |-> JSONStringify(IF functionCalls[i].hasArgs
                                     THEN functionCalls[i].args
                                     ELSE EmptyObject)]]]

\* The translation that pushes a message only when it has text.
MessagesOfContentTextOnly(content, nows) ==
  IF content.kind = "string" THEN <<WireMessage("user", content.text)>>
  ELSE IF content.kind = "part" THEN
    LET text == IF content.parts[1].kind = "text"
                THEN content.parts[1].text ELSE <<>>
    IN IF TrimText(text) # <<>> THEN <<WireMessage("user", text)>> ELSE <<>>
  ELSE
    LET role == IF content.role = "model" THEN "assistant" ELSE content.role
        text == TextOfPartList(content.parts)
        functionCalls == FunctionCallsOf(content.parts)
        message == WireMessage(role, TrimText(text))
    IN ToolMessagesOf(content.parts) \o
       (IF TrimText(text) # <<>>
        THEN <<IF Len(functionCalls) > 0 /\ role = "assistant"
               THEN [message EXCEPT
                       !.hasToolCalls = TRUE,
                       !.tool_calls = ToolCallsOf(functionCalls, nows)]
               ELSE message>>
        ELSE <<>>)

\* One pass of the loop over contents.
MessagesOfContent(content, nows) ==
  IF content.kind = "string" THEN <<WireMessage("user", content.text)>>
  ELSE IF content.kind = "part" THEN
    LET text == IF content.parts[1].kind = "text"
                THEN content.parts[1].text ELSE <<>>
    IN IF TrimText(text) # <<>> THEN <<WireMessage("user", text)>> ELSE <<>>
  ELSE
    LET role == IF content.role = "model" THEN "assistant" ELSE content.role
        text == TextOfPartList(content.parts)
        functionCalls == FunctionCallsOf(content.parts)
        message == WireMessage(role, TrimText(text))
    IN ToolMessagesOf(content.parts) \o
       (IF TrimText(text) # <<>> \/ Len(functionCalls) > 0
        THEN <<IF Len(functionCalls) > 0 /\ role = "assistant"
               THEN [message EXCEPT
                       !.hasToolCalls = TRUE,
                       !.tool_calls = ToolCallsOf(functionCalls, nows)]
               ELSE message>>
        ELSE <<>>)

\* The number of times one pass reads the clock.
NumReads(content) ==
  IF content.kind = "content" /\ content.role = "model"
  THEN Cardinality(Lacking(FunctionCallsOf(content.parts)))
  ELSE 0

RECURSIVE TotalReads(_)
TotalReads(contents) ==
  IF contents = <<>> THEN 0
  ELSE NumReads(Head(contents)) + TotalReads(Tail(contents))

\* messages after the loop over contents.
RECURSIVE TranslateMessages(_, _)
TranslateMessages(contents, nows) ==
  IF contents = <<>> THEN <<>>
  ELSE LET k == NumReads(Head(contents))
       IN MessagesOfContent(Head(contents), SubSeq(nows, 1, k))
          \o TranslateMessages(Tail(contents), SubSeq(nows, k + 1, Len(nows)))

MaxClock == 2

\* The readings of a clock that stands at from and does not go back.
Readings(k, from) ==
  {nows \in [1..k -> from..MaxClock] :
     \A i \in 1..(k - 1) : nows[i] <= nows[i + 1]}

\* The clock goes on between two calls.
Tick ==
  /\ conv.stage \in {"input", "once"}
  /\ clock < MaxClock
  /\ clock' = clock + 1
  /\ UNCHANGED <<streamVars, clientVars, conv, config>>

\* generateContent builds its messages.
GenerateContentMessages ==
  /\ conv.stage = "input"
  /\ LET contents == ContentsOf(conv.request)
     IN \E nows \in Readings(TotalReads(contents), clock) :
          /\ conv' = [conv EXCEPT
                        !.stage = "once",
                        !.first = TranslateMessages(contents, nows)]
          /\ clock' = IF nows = <<>> THEN clock ELSE nows[Len(nows)]
  /\ UNCHANGED <<streamVars, clientVars, config>>

\* generateContentStream builds its messages from the same request.
GenerateContentStreamMessages ==
  /\ conv.stage = "once"
  /\ LET contents == ContentsOf(conv.request)
     IN \E nows \in Readings(TotalReads(contents), clock) :
          /\ conv' = [conv EXCEPT
                        !.stage = "twice",
                        !.second = TranslateMessages(contents, nows)]
          /\ clock' = IF nows = <<>> THEN clock ELSE nows[Len(nows)]
  /\ UNCHANGED <<streamVars, clientVars, config>>

\* The function calls and function responses of the requests.
CallNoId == [id |-> Undefined, name |-> Str("f"), hasArgs |-> FALSE,
             args |-> EmptyObject]
CallWithId == [id |-> Str("a"), name |-> Str("g"), hasArgs |-> TRUE,
               args |-> ObjValue("x", NumValue(1))]
ResponseToA == [id |-> Str("a"), name |-> Str("g"),
                response |-> ObjValue("content", StrValue(<<"a">>))]
ResponseToG == [id |-> Str("g"), name |-> Str("g"),
                response |-> ObjValue("x", NumValue(1))]

ModelPartLists ==
  {<<>>,
   <<TextOfParts(<<"a">>)>>,
   <<TextOfParts(<<" ">>)>>,
   <<TextOfParts(<<" ", "a">>), StringOfParts(<<"a", " ">>)>>,
   <<CallOfParts(CallNoId)>>,
   <<CallOfParts(CallWithId)>>,
   <<CallOfParts(CallNoId), CallOfParts(CallNoId)>>,
   <<CallOfParts(CallWithId), CallOfParts(CallNoId)>>,
   <<TextOfParts(<<"a">>), CallOfParts(CallWithId)>>}

UserPartLists ==
  {<<TextOfParts(<<"a">>)>>,
   <<TextOfParts(<<>>)>>,
   <<ResponseOfParts(ResponseToA)>>,
   <<ResponseOfParts(ResponseToG), ResponseOfParts(ResponseToA)>>,
   <<CallOfParts(CallWithId)>>}

ContentSet ==
  {Content("model", parts) : parts \in ModelPartLists}
  \cup {Content("user", parts) : parts \in UserPartLists}
  \cup {ContentWithoutParts("user")}
  \cup {StringContent(<<"a">>), StringContent(<<" ">>)}
  \cup {PartContent(TextOfParts(<<"a">>)), PartContent(TextOfParts(<<" ">>)),
        PartContent(CallOfParts(CallWithId)),
        PartContent(ResponseOfParts(ResponseToA))}

MaxContents == 2

Requests ==
  {[isArray |-> TRUE, contents |-> contents] :
     contents \in UNION {[1..n -> ContentSet] : n \in 0..MaxContents}}
  \cup {[isArray |-> FALSE, contents |-> content] : content \in ContentSet}

InitMessages ==
  /\ InitStream
  /\ generator = "returned"
  /\ model = DiscoveredModel
  /\ displayName = extractModelName(DiscoveredModel)
  /\ initialize = [pc |-> "done", result |-> "ok", timer |-> "cleared",
                   fetched |-> "ok",
                   modelsResponse |->
                     ModelsResponse(TRUE, <<DiscoveredModel>>, FALSE, <<>>)]
  /\ chatCompletion = IdleChat
  /\ log = <<Request("models", <<>>, FALSE)>>
  /\ config = NoConfig
  /\ clock = 0
  /\ conv \in {[stage |-> "input", request |-> request, first |-> <<>>,
               second |-> <<>>] : request \in Requests}

NextMessages ==
  \/ Tick
  \/ GenerateContentMessages
  \/ GenerateContentStreamMessages

SpecMessages == InitMessages /\ [][NextMessages]_vars

\* The contents of the request under translation.
InputContents == ContentsOf(conv.request)

\* C21. Translating the same message list twice gives identical output, for
\* every input, function calls without id included: the translation depends
\* on no hidden state such as the clock.
TranslationIdempotent ==
  conv.stage = "twice" => conv.first = conv.second

\* The tool calls of a list of wire messages, in order.
RECURSIVE OutputCalls(_)
OutputCalls(messages) ==
  IF messages = <<>> THEN <<>>
  ELSE Head(messages).tool_calls \o OutputCalls(Tail(messages))

\* The ids that the translation can make from the clock.
ClockIds == {GeneratedId(now) : now \in 0..MaxClock}

\* C23. Generated ids are locally unique: any two invocations without id
\* receive distinct generated ids, two function calls of one assistant
\* message translated within the same millisecond included.
GeneratedIdsDistinct ==
  conv.stage \in {"once", "twice"} =>
    LET calls == OutputCalls(conv.first)
    IN \A i, j \in DOMAIN calls :
         (i # j /\ calls[i].id \in ClockIds /\ calls[j].id \in ClockIds) =>
           calls[i].id # calls[j].id

\* The function responses held by the parts of Content objects, in order.
RECURSIVE ResponsesOf(_)
ResponsesOf(parts) ==
  IF parts = <<>> THEN <<>>
  ELSE (IF Head(parts).kind = "functionResponse"
        THEN <<Head(parts).functionResponse>> ELSE <<>>)
       \o ResponsesOf(Tail(parts))

RECURSIVE ContentResponses(_)
ContentResponses(contents) ==
  IF contents = <<>> THEN <<>>
  ELSE (IF Head(contents).kind = "content"
        THEN ResponsesOf(Head(contents).parts) ELSE <<>>)
       \o ContentResponses(Tail(contents))

\* The function responses of the whole input, those of bare parts included.
RECURSIVE AllResponses(_)
AllResponses(contents) ==
  IF contents = <<>> THEN <<>>
  ELSE ResponsesOf(Head(contents).parts) \o AllResponses(Tail(contents))

IsToolMessage(message) == message.role = "tool"

ToolMessages(messages) == SelectSeq(messages, IsToolMessage)

\* C24. The wire tool message produced for a tool result carries as
\* tool_call_id the id of the invocation that the result answers, and no
\* other value.
ToolCallIdPreserved ==
  conv.stage \in {"once", "twice"} =>
    LET results == ContentResponses(InputContents)
        tools == ToolMessages(conv.first)
    IN /\ Len(tools) = Len(results)
       /\ \A i \in DOMAIN tools : tools[i].tool_call_id = results[i].id

\* The function calls of the assistant messages, in order.
RECURSIVE AssistantCalls(_)
AssistantCalls(contents) ==
  IF contents = <<>> THEN <<>>
  ELSE (IF Head(contents).kind = "content" /\ Head(contents).role = "model"
        THEN FunctionCallsOf(Head(contents).parts) ELSE <<>>)
       \o AssistantCalls(Tail(contents))

\* The function calls of the whole input.
RECURSIVE AllCalls(_)
AllCalls(contents) ==
  IF contents = <<>> THEN <<>>
  ELSE FunctionCallsOf(Head(contents).parts) \o AllCalls(Tail(contents))

\* A message with no text but white space, no invocation and no result.
Blank(content) ==
  /\ TrimText(content.text) = <<>>
  /\ TrimText(TextOfPartList(content.parts)) = <<>>
  /\ FunctionCallsOf(content.parts) = <<>>
  /\ ResponsesOf(content.parts) = <<>>

\* An assistant message that holds tool invocations and nothing else.
OnlyInvocations(content) ==
  /\ content.kind = "content"
  /\ content.role = "model"
  /\ content.parts # <<>>
  /\ \A i \in DOMAIN content.parts : content.parts[i].kind = "functionCall"

\* The wire calls are the given invocations, each in its place.
SameCalls(wireCalls, functionCalls) ==
  /\ Len(wireCalls) = Len(functionCalls)
  /\ \A i \in DOMAIN wireCalls :
       /\ wireCalls[i].function.name = functionCalls[i].name
       /\ wireCalls[i].function.arguments =
            JSONStringify(IF functionCalls[i].hasArgs
                          THEN functionCalls[i].args ELSE EmptyObject)
       /\ ~Falsy(functionCalls[i].id) => wireCalls[i].id = functionCalls[i].id.s

\* Assistant messages of invocations only give one assistant message each,
\* with empty text and all the invocations in order.
InvocationsOnlyExpand ==
  (\A i \in DOMAIN InputContents : OnlyInvocations(InputContents[i])) =>
    /\ Len(conv.first) = Len(InputContents)
    /\ \A i \in DOMAIN conv.first :
         /\ conv.first[i].role = "assistant"
         /\ conv.first[i].content = <<>>
         /\ conv.first[i].hasToolCalls
         /\ SameCalls(conv.first[i].tool_calls,
                      FunctionCallsOf(InputContents[i].parts))

\* The message list expansion as stated of every element of the contents.
MessageListExpansion ==
  conv.stage \in {"once", "twice"} =>
    /\ InvocationsOnlyExpand
    /\ Len(ToolMessages(conv.first)) = Len(AllResponses(InputContents))
    /\ (\A i \in DOMAIN InputContents : Blank(InputContents[i])) =>
         conv.first = <<>>
    /\ SameCalls(OutputCalls(conv.first), AllCalls(InputContents))

\* C26. An assistant message holding only tool invocations yields exactly
\* one wire assistant message with empty text and tool_calls holding every
\* invocation in order; each tool result held by a Content object yields
\* exactly one wire tool message; a Content or Part object with no (or
\* whitespace-only) text, no invocation and no result yields zero wire
\* messages, while a bare string yields one user message whatever its text;
\* and no tool invocation of an assistant message is dropped from the wire
\* output.
MessageListExpansionOfContents ==
  conv.stage \in {"once", "twice"} =>
    /\ InvocationsOnlyExpand
    /\ Len(ToolMessages(conv.first)) = Len(ContentResponses(InputContents))
    /\ (\A i \in DOMAIN InputContents :
          Blank(InputContents[i]) /\ InputContents[i].kind # "string") =>
         conv.first = <<>>
    /\ (\A i \in DOMAIN InputContents : InputContents[i].kind = "string") =>
         /\ Len(conv.first) = Len(InputContents)
         /\ \A i \in DOMAIN conv.first :
              /\ conv.first[i].role = "user"
              /\ conv.first[i].content = InputContents[i].text
    /\ SameCalls(OutputCalls(conv.first), AssistantCalls(InputContents))

\* An assistant message of two invocations and a user message of two tool
\* results have become one assistant message and two tool messages.
MessageListExpansionOfContentsWitness ==
  /\ conv.stage = "once"
  /\ Len(InputContents) = 2
  /\ OnlyInvocations(InputContents[1])
  /\ Len(InputContents[1].parts) = 2
  /\ Len(ResponsesOf(InputContents[2].parts)) = 2
  /\ Len(conv.first) = 3
  /\ conv.first[1].role = "assistant"
  /\ Len(conv.first[1].tool_calls) = 2
  /\ conv.first[2].role = "tool"
  /\ conv.first[3].role = "tool"

-----------------------------------------------------------------------------
\* Canonical form derived from a wire tool call.

\* Arguments texts: the JSON texts of the values and what is left of each
\* when its last character is cut off.
WireArguments ==
  LET texts == {JSONStringify(v) : v \in ArgValues(MaxDepth)}
  IN texts \cup {SubSeq(text, 1, Len(text) - 1) : text \in texts}

WireToolCalls ==
  {[id |-> id, type |-> "function",
    function |-> [name |-> name, arguments |-> arguments]] :
     id \in {Undefined, Str(""), Str("a")},
     name \in {Str("f"), Str("g")},
     arguments \in WireArguments}

InitDerive ==
  /\ InitStream
  /\ generator = "none"
  /\ model = NoModel
  /\ displayName = DefaultDisplayName
  /\ initialize = IdleCall
  /\ chatCompletion = IdleChat
  /\ log = <<>>
  /\ config = NoConfig
  /\ clock = 0
  /\ conv \in {[stage |-> "wire", toolCall |-> toolCall,
               back |-> AbsentFunctionCall] : toolCall \in WireToolCalls}

NextDerive == ToGemini

SpecDerive == InitDerive /\ [][NextDerive]_vars

\* C22. Canonical form derived from a wire tool call that lacks an
\* identifier (id absent or empty) carries a newly generated, non-empty
\* identifier.
DerivedIdGenerated ==
  (conv.stage = "back" /\ Falsy(conv.toolCall.id)) => ~Falsy(conv.back.id)

-----------------------------------------------------------------------------
\* The content of a tool result, to the wire and back.

\* convertToolResponseToGeminiPart: the content parsed as JSON, or the raw
\* string where it is no JSON.
convertToolResponseToGeminiPart(message) ==
  LET r == JSONParse(message.content)
  IN [ok |-> TRUE,
      functionResponse |->
        [name |-> message.name,
         response |->
           [name |-> message.name,
            content |-> IF r.ok THEN r.val ELSE StrValue(message.content)]]]

\* The tool message of a functionResponse part is built.
EmbedToolResult ==
  /\ conv.stage = "result"
  /\ conv' = [conv EXCEPT !.stage = "wire",
                          !.message = ToolMessage(conv.functionResponse)]
  /\ UNCHANGED <<streamVars, clientVars, config, clock>>

\* The tool message is translated back.
ConvertToolResponse ==
  /\ conv.stage = "wire"
  /\ conv' = [conv EXCEPT !.stage = "back",
                          !.part = convertToolResponseToGeminiPart(conv.message)]
  /\ UNCHANGED <<streamVars, clientVars, config, clock>>

\* JSON-serializable values: the atoms, and objects of no or one member.
Atoms ==
  {NullValue, BoolValue(FALSE), BoolValue(TRUE), NumValue(0), NumValue(1),
   StrValue(<<>>), StrValue(<<"a">>), StrValue(<<"1">>),
   StrValue(<<Quote, "a">>), StrValue(<<Backslash>>), EmptyObject}

RECURSIVE ContentValues(_)
ContentValues(d) ==
  IF d = 0 THEN Atoms
  ELSE Atoms \cup {ObjValue(key, v) :
                     key \in {"x", "content"}, v \in ContentValues(d - 1)}

\* Wire contents that are no JSON.
RawContents ==
  {<<>>, <<"a">>, <<Quote, "a">>, <<"{", "k">>, <<"1", "a">>,
   <<Quote, Backslash, "a", Quote>>}

NoPart ==
  [ok |-> FALSE,
   functionResponse |->
     [name |-> Undefined,
      response |-> [name |-> Undefined, content |-> UndefinedValue]]]

NoMessage == WireMessage("tool", <<>>)

InitToolResult ==
  /\ InitStream
  /\ generator = "none"
  /\ model = NoModel
  /\ displayName = DefaultDisplayName
  /\ initialize = IdleCall
  /\ chatCompletion = IdleChat
  /\ log = <<>>
  /\ config = NoConfig
  /\ clock = 0
  /\ conv \in
       {[stage |-> "result", raw |-> FALSE,
         functionResponse |->
           [id |-> Str("a"), name |-> Str("g"),
            response |-> ObjValue("content", v)],
         message |-> NoMessage, part |-> NoPart] :
            v \in ContentValues(MaxDepth)}
       \cup
       {[stage |-> "wire", raw |-> TRUE,
         functionResponse |-> AbsentFunctionResponse,
         message |-> [WireMessage("tool", content) EXCEPT
                        !.tool_call_id = Str("a"), !.name = Str("g")],
         part |-> NoPart] : content \in RawContents}

NextToolResult == EmbedToolResult \/ ConvertToolResponse

SpecToolResult == InitToolResult /\ [][NextToolResult]_vars

\* The content that a tool result was given with.
GivenContent == ContentOfResponse(conv.functionResponse.response)

\* The content that has come back.
ReturnedContent == conv.part.functionResponse.response.content

\* C25. Round trip of tool-result content: every JSON-serializable content
\* value (objects, strings, and the falsy values 0, false, the empty string
\* and null) embedded in a wire tool message as a JSON string and translated
\* back is the original content; the translation back never fails, and a
\* wire content that is no JSON is returned unchanged as the raw string.
ToolResultRoundTrip ==
  conv.stage = "back" =>
    /\ conv.part.ok
    /\ ~conv.raw => ReturnedContent = GivenContent
    /\ (conv.raw /\ ~JSONParse(conv.message.content).ok) =>
         ReturnedContent = StrValue(conv.message.content)

-----------------------------------------------------------------------------
\* countTokens.

\* p.text || '' of a part: a bare string and a part of another kind have no
\* text.
TextOfPart(part) == IF part.kind = "text" THEN part.text ELSE <<>>

\* parts.map(p => p.text || '').join(' ')
RECURSIVE JoinTexts(_)
JoinTexts(parts) ==
  IF parts = <<>> THEN <<>>
  ELSE IF Len(parts) = 1 THEN TextOfPart(parts[1])
  ELSE TextOfPart(Head(parts)) \o <<" ">> \o JoinTexts(Tail(parts))

\* contentText after the loop over contents.
RECURSIVE ContentText(_)
ContentText(contents) ==
  IF contents = <<>> THEN <<>>
  ELSE (IF Head(contents).kind = "string" THEN Head(contents).text
        ELSE IF Head(contents).kind = "content"
        THEN (IF Head(contents).hasParts
              THEN JoinTexts(Head(contents).parts) ELSE <<>>)
        ELSE TextOfPart(Head(contents).parts[1]))
       \o <<" ">> \o ContentText(Tail(contents))

\* Math.ceil(n / 4)
CeilQuarter(n) == (n + 3) \div 4

countTokens(request) ==
  [totalTokens |-> CeilQuarter(Len(ContentText(ContentsOf(request))))]

\* The call of countTokens.
CountTokens ==
  /\ conv.stage = "request"
  /\ conv' = [conv EXCEPT !.stage = "counted",
                          !.response = countTokens(conv.request)]
  /\ UNCHANGED <<streamVars, clientVars, config, clock>>

\* The requests counted: those translated, and strings of four characters.
CountContentSet ==
  ContentSet \cup {StringContent(<<"a", "a", "a", "a">>),
                   PartContent(TextOfParts(<<"a", "a", "a", "a">>))}

CountRequests ==
  {[isArray |-> TRUE, contents |-> contents] :
     contents \in UNION {[1..n -> CountContentSet] : n \in 0..MaxContents}}
  \cup {[isArray |-> FALSE, contents |-> content] : content \in CountContentSet}

InitCount ==
  /\ InitStream
  /\ generator = "returned"
  /\ model = DiscoveredModel
  /\ displayName = extractModelName(DiscoveredModel)
  /\ initialize = [pc |-> "done", result |-> "ok", timer |-> "cleared",
                   fetched |-> "ok",
                   modelsResponse |->
                     ModelsResponse(TRUE, <<DiscoveredModel>>, FALSE, <<>>)]
  /\ chatCompletion = IdleChat
  /\ log = <<Request("models", <<>>, FALSE)>>
  /\ config = NoConfig
  /\ clock = 0
  /\ conv \in {[stage |-> "request", request |-> request,
               response |-> [totalTokens |-> 0]] : request \in CountRequests}

NextCount == CountTokens

SpecCount == InitCount /\ [][NextCount]_vars

\* The number of characters of the textual content of a request: its
\* strings, the text parts of its Content objects and its bare text parts.
RECURSIVE TextLength(_)
TextLength(parts) ==
  IF parts = <<>> THEN 0
  ELSE (IF Head(parts).kind = "text" THEN Len(Head(parts).text) ELSE 0)
       + TextLength(Tail(parts))

RECURSIVE TotalCharacters(_)
TotalCharacters(contents) ==
  IF contents = <<>> THEN 0
  ELSE (IF Head(contents).kind = "string" THEN Len(Head(contents).text)
        ELSE TextLength(Head(contents).parts))
       + TotalCharacters(Tail(contents))

\* C27. countTokens returns ceil(totalCharacters / 4), totalCharacters being
\* the number of characters of all textual content of the request, for every
\* request: 1 for a single string of four characters, 0 for an empty
\* request.
TokenEstimate ==
  conv.stage = "counted" =>
    LET n == TotalCharacters(ContentsOf(conv.request))
    IN conv.response.totalTokens = IF n % 4 = 0 THEN n \div 4
                                   ELSE n \div 4 + 1

-----------------------------------------------------------------------------
\* The selection of the back-end and the facade's embedContent.

LlamaCppServer == Str("llamacpp-server")

\* The values of AuthType, a string that is none of them, the empty string
\* and no value.
AuthTypes ==
  {Str("oauth-personal"), Str("oauth-enterprise"), Str("gemini-api-key"),
   Str("vertex-ai"), LlamaCppServer, Str("other"), Str(""), Undefined}

\* validateAuthMethod: "null" or the error message returned.
validateAuthMethod(authMethod, env) ==
  IF authMethod = LlamaCppServer
  THEN IF Falsy(env) THEN "LLAMACPP_BASE_URL environment variable not found"
       ELSE "null"
  ELSE IF authMethod = Str("oauth-personal")
  THEN "Google OAuth authentication is no longer supported"
  ELSE IF authMethod = Str("oauth-enterprise")
  THEN "Google Workspace authentication is no longer supported"
  ELSE IF authMethod = Str("gemini-api-key")
  THEN "Gemini API key authentication is no longer supported"
  ELSE IF authMethod = Str("vertex-ai")
  THEN "Vertex AI authentication is no longer supported"
  ELSE "Invalid auth method selected"

\* createContentGeneratorConfig: made is "ok" with the configuration
\* returned, or the message of the error thrown.
createContentGeneratorConfig(authType, env) ==
  LET effective == IF Falsy(authType) THEN LlamaCppServer ELSE authType
  IN IF effective = LlamaCppServer
     THEN IF Falsy(env)
          THEN [made |-> "LLAMACPP_BASE_URL environment variable is required",
                cfg |-> NoCfg]
          ELSE [made |-> "ok",
                cfg |-> [authType |-> effective, llamacppBaseUrl |-> env]]
     ELSE [made |-> "Authentication type is no longer supported",
           cfg |-> NoCfg]

\* The call of validateAuthMethod.
ValidateAuthMethod(authMethod) ==
  /\ config.validated = "none"
  /\ config' = [config EXCEPT
                  !.authMethod = authMethod,
                  !.validated = validateAuthMethod(authMethod, config.env)]
  /\ UNCHANGED <<streamVars, clientVars, conv, clock>>

\* The call of createContentGeneratorConfig.
CreateContentGeneratorConfig(authType) ==
  /\ config.made = "none"
  /\ LET r == createContentGeneratorConfig(authType, config.env)
     IN config' = [config EXCEPT !.authType = authType,
                                 !.made = r.made,
                                 !.cfg = r.cfg]
  /\ UNCHANGED <<streamVars, clientVars, conv, clock>>

\* createContentGenerator without its check of the configuration.
CreateContentGeneratorUnchecked(cfg) ==
  /\ ~config.called
  /\ generator = "none"
  /\ initialize.pc = "idle"
  /\ config' = [config EXCEPT !.called = TRUE, !.given = cfg]
  /\ initialize' = [initialize EXCEPT !.pc = "fetch", !.timer = "armed"]
  /\ log' = Append(log, Request("models", <<>>, FALSE))
  /\ UNCHANGED <<generator, model, displayName, chatCompletion>>
  /\ UNCHANGED <<streamVars, conv, clock>>

\* createContentGenerator(cfg) up to its await: the configuration is checked,
\* then the client is constructed and initialize() called.
CreateContentGenerator(cfg) ==
  /\ ~config.called
  /\ generator = "none"
  /\ initialize.pc = "idle"
  /\ config' = [config EXCEPT !.called = TRUE, !.given = cfg]
  /\ IF cfg.authType # LlamaCppServer \/ Falsy(cfg.llamacppBaseUrl)
     THEN /\ generator' = "refused"
          /\ UNCHANGED <<initialize, log>>
     ELSE /\ initialize' = [initialize EXCEPT !.pc = "fetch",
                                              !.timer = "armed"]
          /\ log' = Append(log, Request("models", <<>>, FALSE))
          /\ UNCHANGED generator
  /\ UNCHANGED <<model, displayName, chatCompletion>>
  /\ UNCHANGED <<streamVars, conv, clock>>

\* embedContent that asks the server.
EmbedContentAsksServer(request) ==
  /\ generator = "returned"
  /\ conv.stage = "none"
  /\ conv' = [stage |-> "embedded", request |-> request, result |-> "ok",
              embeddings |-> <<request>>]
  /\ log' = Append(log, Request("embeddings", model, FALSE))
  /\ UNCHANGED <<generator, model, displayName, initialize, chatCompletion>>
  /\ UNCHANGED <<streamVars, config, clock>>

\* embedContent(request): throws.
EmbedContent(request) ==
  /\ generator = "returned"
  /\ conv.stage = "none"
  /\ conv' = [stage |-> "embedded", request |-> request, result |-> "error",
              embeddings |-> <<>>]
  /\ UNCHANGED <<streamVars, clientVars, config, clock>>

\* Configurations handed to createContentGenerator by a caller.
GivenConfigs ==
  {[authType |-> authType, llamacppBaseUrl |-> baseUrl] :
     authType \in {LlamaCppServer, Str("gemini-api-key"), Undefined},
     baseUrl \in {Undefined, Str(""), Str("u")}}

EmbedRequests == {"e1", "e2"}

FacadeChatResponses ==
  {ChatResponse(TRUE, <<Choice(TRUE, Message(Str("Hi"), FALSE, <<>>))>>,
                FALSE, NoUsage),
   ChatResponse(FALSE, <<>>, FALSE, NoUsage)}

\* The process starts with LLAMACPP_BASE_URL unset, empty or set.
InitFacade ==
  /\ InitStream
  /\ generator = "none"
  /\ model = NoModel
  /\ displayName = DefaultDisplayName
  /\ initialize = IdleCall
  /\ chatCompletion = IdleChat
  /\ log = <<>>
  /\ conv = NoConv
  /\ clock = 0
  /\ config \in {ConfigOf(baseUrl) : baseUrl \in {Undefined, Str(""), Str("u")}}

NextFacade ==
  \/ \E authMethod \in AuthTypes : ValidateAuthMethod(authMethod)
  \/ \E authType \in AuthTypes : CreateContentGeneratorConfig(authType)
  \/ \E cfg \in GivenConfigs \cup {config.cfg} : CreateContentGenerator(cfg)
  \/ \E outcome \in FetchOutcomes : InitializeFetch(outcome)
  \/ \E modelsResponse \in ClientModelsResponses :
       InitializeJson(modelsResponse)
  \/ InitializeJsonFail
  \/ ChatCompletionCall
  \/ \E outcome \in FetchOutcomes : ChatCompletionFetch(outcome)
  \/ \E openaiResponse \in FacadeChatResponses :
       ChatCompletionJson(openaiResponse)
  \/ ChatCompletionJsonFail
  \/ StartStream
  \/ \E outcome \in FetchOutcomes \ {"ok"} : Fetch(outcome)
  \/ \E request \in EmbedRequests : EmbedContent(request)

SpecFacade == InitFacade /\ [][NextFacade]_vars

\* embedContent has been called and has failed with no embedding.
EmbedFailed ==
  conv.stage = "embedded" =>
    /\ conv.result = "error"
    /\ conv.embeddings = <<>>

\* The call is one step that touches neither the client nor the network.
EmbedStep ==
  (conv.stage = "none" /\ conv'.stage = "embedded") =>
    /\ log' = log
    /\ requests' = requests
    /\ clientVars' = clientVars
    /\ streamVars' = streamVars
    /\ config' = config

\* C28. embedContent fails for every request, immediately: it never returns
\* an embedding, issues no HTTP request and changes no client state.
EmbedContentFails == []EmbedFailed /\ [][EmbedStep]_vars

\* embedContent has failed on an initialized client that has sent its
\* request for the models and a chat request.
EmbedContentFailsWitness ==
  /\ conv.stage = "embedded"
  /\ conv.result = "error"
  /\ generator = "returned"
  /\ Len(log) = 2

\* The configuration that createContentGenerator accepts.
Supported(cfg) ==
  cfg.authType = LlamaCppServer /\ ~Falsy(cfg.llamacppBaseUrl)

\* C29. Discovery failure prevents any conversation from starting:
\* createContentGenerator returns a generator only after initialize() has
\* succeeded; when initialize() fails it fails, returns no generator and no
\* chat-completions request is ever issued; and that failure differs from
\* the configuration failure, which is raised before any network call.
DiscoveryFailureStartsNothing ==
  /\ generator = "returned" => InitializeSucceeded
  /\ (InitializeDone /\ initialize.result = "error") => generator = "failed"
  /\ generator = "failed" =>
       /\ InitializeDone
       /\ initialize.result = "error"
       /\ Supported(config.given)
       /\ log = <<Request("models", <<>>, FALSE)>>
  /\ generator = "refused" =>
       /\ ~Supported(config.given)
       /\ initialize.pc = "idle"
       /\ log = <<>>
  /\ (config.called /\ ~Supported(config.given)) => generator = "refused"
  /\ generator \in {"failed", "refused", "none"} =>
       /\ ChatRequests = {}
       /\ requests = 0
       /\ chatCompletion.pc = "idle"

\* The server was not reached: initialize() has failed on its fetch, and
\* createContentGenerator with it.
DiscoveryFailureStartsNothingWitness ==
  /\ generator = "failed"
  /\ initialize.fetched = "error"
  /\ Supported(config.given)
  /\ Len(log) = 1

\* C30. Back-end selection is closed with a single supported arm and no
\* silent fallback: validateAuthMethod returns no error exactly when the
\* method is llamacpp-server and a base URL is configured;
\* createContentGeneratorConfig and createContentGenerator succeed only for
\* llamacpp-server with a base URL; every other auth type, an absent or
\* unknown one included, gives an explicit error.
BackEndSelectionClosed ==
  /\ config.validated # "none" =>
       ((config.validated = "null") <=>
          (config.authMethod = LlamaCppServer /\ ~Falsy(config.env)))
  /\ config.made # "none" =>
       ((config.made = "ok") <=>
          (config.authType = LlamaCppServer /\ ~Falsy(config.env)))
  /\ (config.called /\ generator # "refused") => Supported(config.given)

-----------------------------------------------------------------------------
\* The facade's response to the i-th event of the generator.
ResponseMatches(i) ==
  LET ev == events[i]
      r == responses[i]
  IN IF IsText(ev)
     THEN /\ r.parts = <<TextPart(ev.text)>>
          /\ r.finishReason = "undefined"
     ELSE /\ r.finishReason = "TOOL_CALLS"
          /\ Len(r.parts) = Len(ev.tool_calls)
          /\ \A j \in DOMAIN ev.tool_calls :
               /\ r.parts[j].kind = "functionCall"
               /\ r.parts[j].functionCall.id = ev.tool_calls[j].id
               /\ r.parts[j].functionCall.name = ev.tool_calls[j].function.name

\* C31. The facade's streaming generate maps the client's events one to one
\* and in order: a text event gives one response with the single text part
\* and no finish reason, the batch event gives one response whose
\* function-call parts are the batch's calls in their order (same id and
\* name) with finish reason TOOL_CALLS; no response is added, dropped or
\* reordered, and the function-call response, if any, is the last one.
FacadeMapsEvents ==
  /\ Len(responses) = Len(events)
  /\ \A i \in DOMAIN events : ResponseMatches(i)
  /\ \A i \in DOMAIN responses :
       responses[i].finishReason = "TOOL_CALLS" => i = Len(responses)

\* Two text responses followed by the response with the two calls of the
\* batch.
FacadeMapsEventsWitness ==
  /\ Len(responses) = 3
  /\ responses[1].parts = <<TextPart("Hel")>>
  /\ responses[2].parts = <<TextPart("lo")>>
  /\ responses[3].finishReason = "TOOL_CALLS"
  /\ Len(responses[3].parts) = 2
  /\ responses[3].parts[1].functionCall.id = "a"
  /\ responses[3].parts[2].functionCall.id = "b"

-----------------------------------------------------------------------------
\* One response body read in every way: the whole body is on the wire from
\* the start and the reads cut it anywhere.

MaxBodyLines == 2

ChunkLineSet ==
  {DataLine(Text1), DataLine(OpenA), DataLine(Frag1), DataLine(DONE)}

\* The texts of at most k lines, each with its newline.
RECURSIVE BodiesOf(_)
BodiesOf(k) ==
  IF k = 0 THEN {<<>>}
  ELSE LET B == BodiesOf(k - 1)
       IN B \cup {b \o line \o <<NL>> : b \in B, line \in ChunkLineSet}

\* The bodies: also those whose last line has no newline.
BodySet ==
  BodiesOf(MaxBodyLines)
    \cup {b \o line : b \in BodiesOf(MaxBodyLines - 1), line \in ChunkLineSet}

InitChunks ==
  \E body \in BodySet :
    /\ pc = "init"
    /\ exit = "none"
    /\ ending = "none"
    /\ requests = 0
    /\ reader = "none"
    /\ released = 0
    /\ srv = "closed"
    /\ sent = Len(Split(body)) - 1
    /\ wire = body
    /\ buffer = <<>>
    /\ lines = <<>>
    /\ currentToolCall = NoCall
    /\ toolCallAccumulator = <<>>
    /\ pending = <<>>
    /\ events = <<>>
    /\ responses = <<>>
    /\ decoded = <<>>
    /\ timer = "none"
    /\ fetched = "none"
    /\ pulls = 0
    /\ generator = "returned"
    /\ model = DiscoveredModel
    /\ displayName = extractModelName(DiscoveredModel)
    /\ initialize = [pc |-> "done", result |-> "ok", timer |-> "cleared",
                     fetched |-> "ok",
                     modelsResponse |->
                       ModelsResponse(TRUE, <<DiscoveredModel>>, FALSE, <<>>)]
    /\ chatCompletion = IdleChat
    /\ log = <<Request("models", <<>>, FALSE)>>
    /\ conv = [stage |-> "body", body |-> body]
    /\ config = NoConfig
    /\ clock = 0

NextChunks ==
  \/ Client
  \/ \E n \in 0..(Len(wire) - 1) : ReadSplit(n)

SpecChunks == InitChunks /\ [][NextChunks]_vars

\* The lines of a text that have their newline.
CompleteLines(text) ==
  LET parts == Split(text) IN SubSeq(parts, 1, Len(parts) - 1)

\* C32. Chunking independence: the events of chatCompletionStream over a
\* response body are the same for every way of cutting the body into reads,
\* cuts inside a line, inside the `data: ` prefix or inside a JSON payload
\* included: at every moment they are the first events of one sequence that
\* depends on the text of the body alone, and all of it when the call has
\* returned.
ChunkingIndependence ==
  LET all == ReplayStream(CompleteLines(conv.body)).events
  IN /\ Len(events) <= Len(all)
     /\ events = SubSeq(all, 1, Len(events))
     /\ exit = "return" => events = all

\* A read has ended inside the JSON payload of the second line, after the
\* text of the first line was emitted.
ChunkingIndependenceWitness ==
  /\ pc = "run"
  /\ buffer = <<DATA, Piece(OpenA, 1)>>
  /\ wire # <<>>
  /\ wire[1] = Piece(OpenA, 2)
  /\ events = <<TextEvent("Hel")>>

\* The lines of a text, the last one included when it has no newline.
ReceivedLines(text) ==
  LET parts == Split(text)
  IN IF parts[Len(parts)] = <<>> THEN SubSeq(parts, 1, Len(parts) - 1)
     ELSE parts

\* C33. When the transport closes, every data line received is applied
\* before the closing logic runs, a last line without newline included: the
\* events of a call that has returned are those of all lines of the body, so
\* that a text or a tool-call fragment on the last line is in them and a
\* [DONE] on it ends the call as elsewhere.
FinalLineApplied ==
  exit = "return" =>
    events = ReplayStream(ReceivedLines(conv.body)).events

-----------------------------------------------------------------------------
\* The elements of delta.tool_calls the step at hand goes through: those of
\* the line looped over when its delta has no text, those left after a text
\* event when the generator is resumed.
AppliedNow ==
  IF pc = "yieldText" /\ pc' = "run" THEN pending
  ELSE IF pc = "run" /\ lines # <<>> /\ LineDelta(Head(lines)).content = ""
       THEN LineDelta(Head(lines)).tool_calls
       ELSE <<>>

\* The batch holds as many calls as the decoded deltas have elements with
\* index 0 and an id.
BatchCountsOpens ==
  \A i \in BatchIndices :
    Len(events[i].tool_calls) = NumOpens(AllTcds(decoded))

\* A step in which no element with index 0 and an id is gone through opens
\* and closes nothing (the closing logic at the end of the stream apart), and
\* the fragments of elements with a nonzero index go to the open call.
OpeningStep ==
  LET tcs == AppliedNow
  IN /\ ((\A i \in DOMAIN tcs : ~Opens(tcs[i])) /\ ending' = ending) =>
          /\ toolCallAccumulator' = toolCallAccumulator
          /\ currentToolCall'.open = currentToolCall.open
          /\ currentToolCall'.id = currentToolCall.id
     /\ (tcs # <<>> /\ (\A i \in DOMAIN tcs : tcs[i].index # 0)
         /\ currentToolCall.open) =>
          /\ currentToolCall'.name = currentToolCall.name \o NameFrom(tcs, 1)
          /\ currentToolCall'.arguments
               = currentToolCall.arguments \o ArgumentsFrom(tcs, 1)

\* C34. A tool call is opened only by a tool-call delta with index 0 and a
\* non-empty id: the terminal batch has as many calls as the deltas gone
\* through have such elements, and a delta with a nonzero index, even one
\* with a fresh id, neither opens nor closes a call; its name and arguments
\* fragments are appended to the open call.
ToolCallOpening == []BatchCountsOpens /\ [][OpeningStep]_vars

\* The batch of one call: the delta with index 1 and the id "c" that came
\* after the opening of "a" has opened nothing and its fragments are in "a".
ToolCallOpeningWitness ==
  /\ decoded = <<DataLine(OpenA), DataLine(Other1), DataLine(DONE)>>
  /\ BatchIndices # {}
  /\ events[Len(events)].tool_calls
       = <<[id |-> "a", type |-> "function",
            function |-> [name |-> <<"f", "h">>, arguments |-> <<"1">>]]>>

-----------------------------------------------------------------------------
\* The elements from the first one that opens a call on.
RECURSIVE FromFirstOpen(_)
FromFirstOpen(F) ==
  IF F = <<>> \/ Opens(Head(F)) THEN F ELSE FromFirstOpen(Tail(F))

\* A step that goes through fragments only, while no call is open.
OrphanStep ==
  LET tcs == AppliedNow
  IN (tcs # <<>> /\ (\A i \in DOMAIN tcs : ~Opens(tcs[i]))
      /\ ~currentToolCall.open) =>
       /\ currentToolCall' = NoCall
       /\ toolCallAccumulator' = toolCallAccumulator
       /\ events' = events
       /\ responses' = responses

\* The calls are those of the deltas from the first opening on.
OrphansForgotten ==
  /\ pc \in {"run", "yieldText"} =>
       PushCurrent(currentToolCall, toolCallAccumulator)
         = ExpectedCalls(FromFirstOpen(AppliedTcds))
  /\ \A i \in BatchIndices :
       events[i].tool_calls = ExpectedCalls(FromFirstOpen(AllTcds(decoded)))

\* C35. A tool-call delta with name or arguments fragments that arrives while
\* no call is open changes nothing: no call is created, the completed list
\* is as before, no event is emitted for it, and the fragments are not in a
\* call opened later.
OrphanFragmentsIgnored == []OrphansForgotten /\ [][OrphanStep]_vars

\* Fragments came first, then the opening of "a": the batch has the call
\* "a" with its own name fragment only.
OrphanFragmentsIgnoredWitness ==
  /\ decoded = <<DataLine(Frag1), DataLine(OpenA), DataLine(DONE)>>
  /\ events = <<BatchEvent(<<[id |-> "a", type |-> "function",
                              function |-> [name |-> <<"f">>,
                                            arguments |-> <<>>]]>>)>>

-----------------------------------------------------------------------------
\* Several streaming calls in flight on one client.  What a call holds is in
\* conv.calls (its reader with the body behind it, its buffer, its place in
\* the loop, what it has yielded) and in conv.locals (its currentToolCall and
\* toolCallAccumulator); the client's fields are shared.

MaxCalls == 2

CallIndices == 1..MaxCalls

BodyA ==
  DataLine(OpenA) \o <<NL>> \o DataLine(Frag1) \o <<NL>> \o DataLine(Frag2)
    \o <<NL>>
BodyB == DataLine(TextOpenB) \o <<NL>> \o DataLine(DONE) \o <<NL>>

StreamBodies == {BodyA, BodyB}

NewStreamCall(body) ==
  [pc |-> "init", body |-> body, wire |-> body, buffer |-> <<>>,
   lines |-> <<>>, pending |-> <<>>, events |-> <<>>]

NewLocals == [cur |-> NoCall, acc |-> <<>>]

InitIsolation ==
  /\ InitStream
  /\ generator = "returned"
  /\ model = DiscoveredModel
  /\ displayName = extractModelName(DiscoveredModel)
  /\ initialize = [pc |-> "done", result |-> "ok", timer |-> "cleared",
                   fetched |-> "ok",
                   modelsResponse |->
                     ModelsResponse(TRUE, <<DiscoveredModel>>, FALSE, <<>>)]
  /\ chatCompletion = IdleChat
  /\ log = <<Request("models", <<>>, FALSE)>>
  /\ \E bodies \in [CallIndices -> StreamBodies] :
       conv = [stage |-> "calls",
               calls |-> [c \in CallIndices |-> NewStreamCall(bodies[c])],
               locals |-> [c \in CallIndices |-> NewLocals]]
  /\ config = NoConfig
  /\ clock = 0

\* The accumulator all calls would share if it were kept in the client.
LocalsOfClient(c) == 1

\* `let currentToolCall`, `const toolCallAccumulator`: each call has its own.
LocalsOf(c) == c

IsolationFrame ==
  UNCHANGED <<streamVars, generator, model, displayName, initialize,
              chatCompletion, config, clock>>

\* The first next() of call c: the request is sent and the reader taken.
CallStart(c) ==
  /\ conv.calls[c].pc = "init"
  /\ conv' = [conv EXCEPT !.calls[c].pc = "run",
                          !.locals[LocalsOf(c)] = NewLocals]
  /\ log' = Append(log, Request("chat", model, TRUE))
  /\ IsolationFrame

\* reader.read() of call c resolves with the next n tokens of its body.
CallRead(c, n) ==
  LET call == conv.calls[c]
      parts == Split(Concat(call.buffer, SubSeq(call.wire, 1, n)))
  IN /\ call.pc = "run"
     /\ call.lines = <<>>
     /\ n \in 1..Len(call.wire)
     /\ conv' = [conv EXCEPT
                   !.calls[c].lines = SubSeq(parts, 1, Len(parts) - 1),
                   !.calls[c].buffer = parts[Len(parts)],
                   !.calls[c].wire = SubSeq(call.wire, n + 1, Len(call.wire))]
     /\ UNCHANGED log
     /\ IsolationFrame

\* The closing logic of call c: the open call is pushed and the batch, if
\* there is one, is yielded.
CallCloseOut(c) ==
  LET call == conv.calls[c]
      loc == conv.locals[LocalsOf(c)]
      acc == PushCurrent(loc.cur, loc.acc)
  IN [conv EXCEPT
        !.locals[LocalsOf(c)].acc = acc,
        !.calls[c].pc = IF acc # <<>> THEN "yieldBatch" ELSE "ended",
        !.calls[c].events = IF acc # <<>> THEN Append(@, BatchEvent(acc))
                            ELSE @]

\* reader.read() of call c resolves with done.
CallReadDone(c) ==
  /\ conv.calls[c].pc = "run"
  /\ conv.calls[c].lines = <<>>
  /\ conv.calls[c].wire = <<>>
  /\ conv' = CallCloseOut(c)
  /\ UNCHANGED log
  /\ IsolationFrame

\* One iteration of the loop over the lines of call c, up to its yield.
CallProcessLine(c) ==
  LET call == conv.calls[c]
      loc == conv.locals[LocalsOf(c)]
      trimmed == Trim(Head(call.lines))
      data == Slice6(trimmed)
      parsed == ParseChunk(data)
      d == DeltaOf(parsed.chunk)
      st == ApplyToolCalls(loc, d.delta.tool_calls)
      next == [conv EXCEPT !.calls[c].lines = Tail(call.lines)]
  IN /\ call.pc = "run"
     /\ call.lines # <<>>
     /\ conv' =
          IF ~StartsWithData(trimmed) THEN next
          ELSE IF data = <<DONE>>
          THEN [CallCloseOut(c) EXCEPT !.calls[c].lines = Tail(call.lines)]
          ELSE IF ~parsed.ok \/ ~d.ok THEN next
          ELSE IF HasContent(d.delta)
          THEN [next EXCEPT
                  !.calls[c].events = Append(@, TextEvent(d.delta.content)),
                  !.calls[c].pc = "yieldText",
                  !.calls[c].pending = d.delta.tool_calls]
          ELSE [next EXCEPT !.locals[LocalsOf(c)] = st]
     /\ UNCHANGED log
     /\ IsolationFrame

\* next() on call c after an event: the rest of the delta after a text, the
\* end of the call after the batch.
CallResume(c) ==
  LET call == conv.calls[c]
      loc == conv.locals[LocalsOf(c)]
  IN /\ call.pc \in {"yieldText", "yieldBatch"}
     /\ conv' =
          IF call.pc = "yieldText"
          THEN [conv EXCEPT
                  !.locals[LocalsOf(c)] = ApplyToolCalls(loc, call.pending),
                  !.calls[c].pending = <<>>,
                  !.calls[c].pc = "run"]
          ELSE [conv EXCEPT !.calls[c].pc = "ended"]
     /\ UNCHANGED log
     /\ IsolationFrame

NextIsolation ==
  \E c \in CallIndices :
    \/ CallStart(c)
    \/ \E n \in 1..Len(conv.calls[c].wire) : CallRead(c, n)
    \/ CallReadDone(c)
    \/ CallProcessLine(c)
    \/ CallResume(c)

SpecIsolation == InitIsolation /\ [][NextIsolation]_vars

\* C36. Streaming calls are isolated from each other: under every
\* interleaving of the reads and pulls of the calls in flight on one client,
\* the events of each call are the first events of what the call emits when
\* run alone over its body, and all of them when the call has ended; no tool
\* call, fragment or buffered text of another call is in them.
StreamsIsolated ==
  \A c \in CallIndices :
    LET call == conv.calls[c]
        alone == ReplayStream(CompleteLines(call.body)).events
    IN /\ Len(call.events) <= Len(alone)
       /\ call.events = SubSeq(alone, 1, Len(call.events))
       /\ call.pc = "ended" => call.events = alone

\* Two calls are in the middle of their bodies at the same time: one has the
\* call "a" open and a part of a line in its buffer, the other has the call
\* "b" open.
StreamsIsolatedWitness ==
  /\ conv.calls[1].pc = "run"
  /\ conv.calls[2].pc = "run"
  /\ conv.locals[1].cur.open
  /\ conv.locals[1].cur.id = "a"
  /\ conv.calls[1].buffer # <<>>
  /\ conv.locals[2].cur.open
  /\ conv.locals[2].cur.id = "b"
  /\ conv.calls[2].events = <<TextEvent("lo")>>

-----------------------------------------------------------------------------
\* Conversations whose messages mix text, function calls and function
\* responses.
MixedPartLists ==
  {<<TextOfParts(<<"a">>)>>,
   <<ResponseOfParts(ResponseToA)>>,
   <<ResponseOfParts(ResponseToA), TextOfParts(<<"a">>)>>,
   <<TextOfParts(<<"a">>), ResponseOfParts(ResponseToA)>>,
   <<CallOfParts(CallWithId), TextOfParts(<<"a">>)>>,
   <<CallOfParts(CallWithId), ResponseOfParts(ResponseToG)>>}

MixedContentSet ==
  {Content("model", parts) : parts \in MixedPartLists}
  \cup {Content("user", parts) : parts \in MixedPartLists}
  \cup {StringContent(<<"a">>), PartContent(TextOfParts(<<"a">>))}

MixedRequests ==
  {[isArray |-> TRUE, contents |-> contents] :
     contents \in UNION {[1..n -> MixedContentSet] : n \in 0..MaxContents}}
  \cup {[isArray |-> FALSE, contents |-> content] : content \in MixedContentSet}

InitOrder ==
  /\ InitStream
  /\ generator = "returned"
  /\ model = DiscoveredModel
  /\ displayName = extractModelName(DiscoveredModel)
  /\ initialize = [pc |-> "done", result |-> "ok", timer |-> "cleared",
                   fetched |-> "ok",
                   modelsResponse |->
                     ModelsResponse(TRUE, <<DiscoveredModel>>, FALSE, <<>>)]
  /\ chatCompletion = IdleChat
  /\ log = <<Request("models", <<>>, FALSE)>>
  /\ config = NoConfig
  /\ clock = 0
  /\ conv \in {[stage |-> "input", request |-> request, first |-> <<>>,
               second |-> <<>>] : request \in MixedRequests}

SpecOrder == InitOrder /\ [][NextMessages]_vars

\* Where the wire messages of the i-th element of contents come from: for
\* each message, the places <<i, j>> of the parts it is made of.  A function
\* response makes a tool message of its own; the texts and function calls
\* of a Content make one message together.
ResponsePlaces(parts) == {j \in DOMAIN parts : parts[j].kind = "functionResponse"}

OtherPlaces(parts) ==
  {j \in DOMAIN parts : parts[j].kind \in {"string", "text", "functionCall"}}

\* The places the messages of content i come from, message by message, found
\* by content: a tool message is that of one response part, the other
\* message holds the text and the calls of the other parts.
DerivedFrom(message, content, i) ==
  IF content.kind # "content" THEN {<<i, 1>>}
  ELSE IF message.role = "tool"
  THEN {<<i, j>> : j \in {k \in ResponsePlaces(content.parts) :
                            ToolMessage(content.parts[k].functionResponse)
                              = message}}
  ELSE {<<i, j>> : j \in OtherPlaces(content.parts)}

\* <<i, j>> is earlier in the conversation than <<k, l>>.
Earlier(a, b) == a[1] < b[1] \/ (a[1] = b[1] /\ a[2] < b[2])

\* The origins of the messages of a whole list: those of each element of
\* contents one after the other.
RECURSIVE OriginsFrom(_, _)
OriginsFrom(contents, i) ==
  IF i > Len(contents) THEN <<>>
  ELSE LET ms == MessagesOfContent(contents[i],
                                   [k \in 1..NumReads(contents[i]) |-> 0])
       IN [p \in DOMAIN ms |-> DerivedFrom(ms[p], contents[i], i)]
          \o OriginsFrom(contents, i + 1)

InOrder(messages, contents) ==
  LET origins == OriginsFrom(contents, 1)
  IN /\ Len(origins) = Len(messages)
     /\ \A p, q \in DOMAIN messages :
          p < q => \A a \in origins[p], b \in origins[q] :
                     a = b \/ Earlier(a, b)

\* C37. The wire message list keeps the chronological order of the
\* conversation: a wire message made from an earlier message or part comes
\* before one made from a later message or part, also within one message
\* that mixes text, function calls and function responses.
ChronologicalOrder ==
  /\ conv.stage \in {"once", "twice"} => InOrder(conv.first, InputContents)
  /\ conv.stage = "twice" => InOrder(conv.second, InputContents)

-----------------------------------------------------------------------------
\* Discovery over models lists whose entries may lack their identifier.
IdentifierResponses ==
  DiscoveryResponses
    \cup {ModelsResponse(m.has, m.l, d.has, d.l) :
            m \in ListsOf({UndefinedId}), d \in ListsOf({UndefinedId, OtherId})}

NextIdentifier ==
  \/ InitializeCall
  \/ \E outcome \in FetchOutcomes : InitializeFetch(outcome)
  \/ \E modelsResponse \in IdentifierResponses : InitializeJson(modelsResponse)
  \/ InitializeJsonFail

SpecIdentifier == InitClient /\ [][NextIdentifier]_vars

\* C38. A failed initialize() leaves the cached model identifier and display
\* name as they were before the call (the empty identifier and `llama.cpp`
\* on a new client), whatever made it fail: the server not reached, the
\* timeout, a status that is no success, no model in the list, or a first
\* entry without a usable identifier.
FailedInitializeKeepsFields ==
  (InitializeDone /\ initialize.result = "error") =>
    /\ model = NoModel
    /\ displayName = DefaultDisplayName

-----------------------------------------------------------------------------
\* The event stream with the lines that are no data lines: blank lines,
\* comments and the lines of other fields (event:, id:), one of them with a
\* JSON chunk as its value.
OtherLines == {<<>>, <<WS>>, <<CMT>>, <<FIELD, Text1>>}

OtherLineSet ==
  {DataLine(Text1), DataLine(OpenA), DataLine(Frag1), DataLine(DONE)}
    \cup OtherLines

NextOther ==
  \/ \E line \in OtherLineSet : ServerSend(line)
  \/ \E line \in OtherLineSet : ServerSendUnterminated(line)
  \/ ServerClose
  \/ Client

SpecOther == Init /\ [][NextOther]_vars

\* A line that does not begin, blanks apart, with the `data: ` prefix.
IsOtherLine(line) ==
  LET t == Trim(line) IN t = <<>> \/ t[1] # DATA

RECURSIVE WithoutOther(_)
WithoutOther(ls) ==
  IF ls = <<>> THEN <<>>
  ELSE (IF IsOtherLine(Head(ls)) THEN <<>> ELSE <<Head(ls)>>)
         \o WithoutOther(Tail(ls))

\* Between two lines the accumulator and the events are those of the data
\* lines decoded, and so are the events of a call that has run to its end.
OtherLinesInvisible ==
  /\ pc = "run" =>
       LET r == ReplayLines(ReplayStart, WithoutOther(decoded))
       IN /\ currentToolCall = r.cur
          /\ toolCallAccumulator = r.acc
          /\ events = r.events
  /\ exit = "return" =>
       events = ReplayStream(WithoutOther(decoded)).events
  /\ EventTexts(events) = TextsOf(WithoutOther(decoded))

\* The step of the loop over a line that is no data line.
OtherLineStep ==
  (pc = "run" /\ lines # <<>> /\ IsOtherLine(Head(lines))) =>
    /\ pc' = "run"
    /\ exit' = "none"
    /\ currentToolCall' = currentToolCall
    /\ toolCallAccumulator' = toolCallAccumulator
    /\ events' = events
    /\ responses' = responses

\* C39. Only the lines with the `data: ` prefix mean something: every other
\* line of the event stream (a blank line, a comment, an event: or id:
\* field) emits no event and leaves the open call and the completed list as
\* they were, so that the events of a stream are those of the stream without
\* these lines.
OnlyDataLinesCount == []OtherLinesInvisible /\ [][OtherLineStep]_vars

\* A call that ran to its end over a stream with a field line carrying a
\* JSON chunk between the opening of a tool call and its fragment.
OnlyDataLinesCountWitness ==
  /\ exit = "return"
  /\ decoded = <<DataLine(OpenA), <<FIELD, Text1>>, DataLine(Frag1)>>
  /\ events = <<BatchEvent(<<[id |-> "a", type |-> "function",
                              function |-> [name |-> <<"f", "g">>,
                                            arguments |-> <<"{", "k">>]]>>)>>

====
